---- MODULE Spec2Model ----
(***************************************************************************)
(* A model of the course-record extractor of course.py: the function      *)
(* parse_course_block, the regular expressions it applies and the          *)
(* whitespace normalisation clean_text, over Python strings represented    *)
(* as sequences of one-character strings; and scrape_courses_from_page,    *)
(* which finds the course blocks of a page and parses them in a loop.      *)
(* Around it, the runs of the scripts: main of course.py, fetch_page and   *)
(* scrape_all of ewuscraper.py, get_faculty_links and scrape_all_faculty   *)
(* of faculty.py and main of cse_homepage.py, with the requests they send  *)
(* and the sleeps they take.                                               *)
(***************************************************************************)
EXTENDS Integers, Sequences, FiniteSets, TLC

VARIABLES
    doc,      \* the course block handed to the next / last call, as a list of text fragments
    calls,    \* the calls of parse_course_block made so far, oldest first
    heap,     \* the list objects allocated so far: heap[a] is the content of list a
    page,     \* the page scrape_courses_from_page fetches: the response and what the soup finds in it
    pc,       \* where scrape_courses_from_page stands
    blocks,   \* the blocks its loop parses: unique_containers, or the pieces of the split text
    idx,      \* the number of blocks the loop has parsed
    courses,  \* the list `courses` it returns
    url,      \* the argument url of scrape_courses_from_page
    net,      \* the requests sent (requests.get) and the sleeps taken (time.sleep), oldest first
    course_main,  \* main of course.py: its position, the urls done, all_data, the file written
    scraper,      \* an EWUCSEScraper: self.data, the position of scrape_all, the frame of fetch_page
    faculty,      \* scrape_all_faculty of faculty.py: its position, profile_links, all_profiles
    homepage      \* main of cse_homepage.py: its position, all_data, the file written

vars == <<doc, calls, heap, page, pc, blocks, idx, courses, url, net,
          course_main, scraper, faculty, homepage>>
parseVars == <<doc, calls, heap>>
scrapeVars == <<page, pc, blocks, idx, courses, url>>
\* The frames of the scripts.
runVars == <<course_main, scraper, faculty, homepage>>

(***************************************************************************)
(* Python strings and character classes                                    *)
(***************************************************************************)

\* A string literal as a sequence of one-character strings.
Str(s) ==
    LET chars == [i \in 1..Len(s) |-> SubSeq(s, i, i)]
    IN  SubSeq(chars, 1, Len(s))

UpperLetters == Str("ABCDEFGHIJKLMNOPQRSTUVWXYZ")
LowerLetters == Str("abcdefghijklmnopqrstuvwxyz")
UpperSet == {UpperLetters[i] : i \in DOMAIN UpperLetters}
LowerSet == {LowerLetters[i] : i \in DOMAIN LowerLetters}
DigitSet == {"0", "1", "2", "3", "4", "5", "6", "7", "8", "9"}
SpaceSet == {" ", "\t", "\n"}

ToLower == [c \in UpperSet |-> LowerLetters[CHOOSE i \in DOMAIN UpperLetters : UpperLetters[i] = c]]

\* str.lower() of one character; re.IGNORECASE compares characters up to case.
Lower(c) == IF c \in UpperSet THEN ToLower[c] ELSE c

\* [A-Z] without and with re.IGNORECASE.
IsUpper(c) == c \in UpperSet
IsLetter(c) == c \in UpperSet \/ c \in LowerSet
\* \d and \s of the re module.
IsDigit(c) == c \in DigitSet
IsSpace(c) == c \in SpaceSet

\* Python's None and str values of the record's fields.
PyNone == [type |-> "NoneType"]
PyStr(s) == [type |-> "str", val |-> s]

\* A match object: None, or the captured groups.
NoMatch == [matched |-> FALSE]
Match(g) == [matched |-> TRUE, groups |-> g]

\* The first index p of i..n at which At(p) holds, 0 if there is none.
First(n, i, At(_)) ==
    IF \E p \in i..n : At(p)
    THEN CHOOSE p \in i..n : At(p) /\ \A q \in i..(p - 1) : ~At(q)
    ELSE 0

\* The first index j >= i of s whose character is not whitespace (Len(s)+1 if none): \s* from i.
SkipSpace(s, i) ==
    LET NonSpace(p) == ~IsSpace(s[p])
        j == First(Len(s), i, NonSpace)
    IN  IF j = 0 THEN Len(s) + 1 ELSE j

\* The first index j >= i of s whose character is not a digit (Len(s)+1 if none): \d* from i.
SkipDigits(s, i) ==
    LET NonDigit(p) == ~IsDigit(s[p])
        j == First(Len(s), i, NonDigit)
    IN  IF j = 0 THEN Len(s) + 1 ELSE j

\* The index of the last non-whitespace character of s (0 if none).
LastNonSpace(s) ==
    IF \A p \in 1..Len(s) : IsSpace(s[p]) THEN 0
    ELSE CHOOSE p \in 1..Len(s) : ~IsSpace(s[p]) /\ \A q \in (p + 1)..Len(s) : IsSpace(s[q])

\* Mutant of Strip: only the leading whitespace is removed (lstrip).
Strip_LeftOnly(s) == SubSeq(s, SkipSpace(s, 1), Len(s))

\* str.strip()
Strip(s) == SubSeq(s, SkipSpace(s, 1), LastNonSpace(s))

\* re.sub(r'\s+', ' ', text): every maximal run of whitespace becomes one space
\* (the first character of a run is replaced, the others are dropped).
Kept(x) == x[2]

ReSubSpaces(text) ==
    LET n == Len(text)
        marked == [i \in 1..n |->
                     IF IsSpace(text[i])
                     THEN <<" ", i = 1 \/ ~IsSpace(text[i - 1])>>
                     ELSE <<text[i], TRUE>>]
        kept == SelectSeq(SubSeq(marked, 1, n), Kept)
        out == [i \in 1..Len(kept) |-> kept[i][1]]
    IN  SubSeq(out, 1, Len(kept))

\* Mutant of clean_text: the text is stripped, its inner whitespace left as it is.
clean_text_StripOnly(text) ==
    IF text = <<>> THEN <<>>
    ELSE Strip(text)

\* clean_text(text)
clean_text(text) ==
    IF text = <<>> THEN <<>>
    ELSE Strip(ReSubSpaces(text))

\* The literal lit occurs in s at index i; ic: re.IGNORECASE.
LitAt(s, i, lit, ic) ==
    /\ i >= 1
    /\ i + Len(lit) - 1 <= Len(s)
    /\ \A k \in 1..Len(lit) :
          IF ic THEN Lower(s[i + k - 1]) = Lower(lit[k]) ELSE s[i + k - 1] = lit[k]

\* The first index j >= i at which lit occurs in s, 0 if there is none.
FindLit(s, i, lit, ic) ==
    LET At(p) == LitAt(s, p, lit, ic)
    IN  First(Len(s) - Len(lit) + 1, i, At)

\* The index of the first "\n" of s at or after i, Len(s)+1 if none: where '.' stops without DOTALL.
LineEnd(s, i) ==
    LET Newline(p) == s[p] = "\n"
        j == First(Len(s), i, Newline)
    IN  IF j = 0 THEN Len(s) + 1 ELSE j

\* len(s.split('\n')): one piece more than there are newlines.
SplitLen(s) == Cardinality({i \in 1..Len(s) : s[i] = "\n"}) + 1

\* s.split('\n')[0]: the text before the first newline.
SplitFirst(s) == SubSeq(s, 1, LineEnd(s, 1) - 1)

\* str.replace('\n', ' ')
ReplaceNewlines(s) ==
    LET out == [i \in 1..Len(s) |-> IF s[i] = "\n" THEN " " ELSE s[i]]
    IN  SubSeq(out, 1, Len(s))

(***************************************************************************)
(* The regular expressions of parse_course_block                           *)
(***************************************************************************)

SchemeLabel == Str("Credit Hours and Teaching Scheme")
CreditLabel == Str("Credit hours")
PrerequisiteLabel == Str("Prerequisite")
ObjectiveLabel == Str("Course Objective")
OutcomesLabel == Str("Course Outcomes")
COsLabel == Str("(COs)")
ContentsLabel == Str("Course Contents")
COToken == Str("CO")

\* The index after an optional separator [:\-]? at i.
SkipSeparator(s, i) ==
    IF i <= Len(s) /\ s[i] \in {":", "-"} THEN i + 1 ELSE i

\* Mutant of header_match: \d* instead of \d+ (three letters alone pass as a code).
header_match_StarDigits(first_line) ==
    LET n == Len(first_line)
        ok == /\ n >= 3
              /\ \A k \in 1..3 : IsLetter(first_line[k])
        d == SkipDigits(first_line, 4)
        w == SkipSpace(first_line, d)
        e == LineEnd(first_line, w)
    IN  IF ok
        THEN Match(<<SubSeq(first_line, 1, d - 1), SubSeq(first_line, w, e - 1)>>)
        ELSE NoMatch

\* The header's letters: [A-Z]{3} under re.IGNORECASE.
HeaderLetter(c) == IsLetter(c)

\* re.match(r'([A-Z]{3}\d+)\s*(.*)', first_line, re.IGNORECASE)
header_match(first_line) ==
    LET n == Len(first_line)
        ok == /\ n >= 4
              /\ \A k \in 1..3 : HeaderLetter(first_line[k])
              /\ IsDigit(first_line[4])
        d == SkipDigits(first_line, 4)
        w == SkipSpace(first_line, d)
        e == LineEnd(first_line, w)
    IN  IF ok
        THEN Match(<<SubSeq(first_line, 1, d - 1), SubSeq(first_line, w, e - 1)>>)
        ELSE NoMatch

\* Mutant of M2At: the capture also ends at "Total", whichever of the two comes first.
M2At_ToTotal(s, p) ==
    IF ~LitAt(s, p, SchemeLabel, TRUE) THEN <<0, 0>>
    ELSE LET a == SkipSpace(s, p + Len(SchemeLabel))
         IN  IF a > Len(s) \/ s[a] # ":" THEN <<0, 0>>
             ELSE LET b == SkipSpace(s, a + 1)
                      e == FindLit(s, b, PrerequisiteLabel, TRUE)
                      o == FindLit(s, b, Str("Total"), TRUE)
                  IN  IF e = 0 /\ o = 0 THEN <<0, 0>>
                      ELSE IF e = 0 THEN <<b, o>>
                      ELSE IF o = 0 THEN <<b, e>>
                      ELSE <<b, IF o < e THEN o ELSE e>>

\* re.search(r'Credit Hours and Teaching Scheme\s*:\s*(.*?)Prerequisite', search_text,
\*           re.IGNORECASE | re.DOTALL): where the capture starts and ends for a match
\* that starts at p, <<0, 0>> if there is none.
M2At(s, p) ==
    IF ~LitAt(s, p, SchemeLabel, TRUE) THEN <<0, 0>>
    ELSE LET a == SkipSpace(s, p + Len(SchemeLabel))
         IN  IF a > Len(s) \/ s[a] # ":" THEN <<0, 0>>
             ELSE LET b == SkipSpace(s, a + 1)
                      e == FindLit(s, b, PrerequisiteLabel, TRUE)
                  IN  IF e = 0 THEN <<0, 0>> ELSE <<b, e>>

m2(s) ==
    LET At(p) == M2At(s, p)[1] # 0
        p == First(Len(s), 1, At)
    IN  IF p = 0 THEN NoMatch
        ELSE Match(<<SubSeq(s, M2At(s, p)[1], M2At(s, p)[2] - 1)>>)

\* Mutant of credit_match: the first bare integer of the scheme text, no label needed.
credit_match_BareInteger(s) ==
    LET At(p) == IsDigit(s[p])
        p == First(Len(s), 1, At)
    IN  IF p = 0 THEN NoMatch
        ELSE Match(<<SubSeq(s, p, SkipDigits(s, p) - 1)>>)

\* Mutant of credit_match: the whole match is captured, label included.
credit_match_WholeMatch(s) ==
    LET At(p) == LitAt(s, p, CreditLabel, TRUE)
                    /\ LET a == SkipSpace(s, p + Len(CreditLabel))
                       IN  a <= Len(s) /\ IsDigit(s[a])
        p == First(Len(s), 1, At)
    IN  IF p = 0 THEN NoMatch
        ELSE Match(<<SubSeq(s, p, SkipDigits(s, SkipSpace(s, p + Len(CreditLabel))) - 1)>>)

\* re.search(r'Credit hours\s*(\d+)', scheme_raw, re.IGNORECASE)
CreditAt(s, p) ==
    /\ LitAt(s, p, CreditLabel, TRUE)
    /\ LET a == SkipSpace(s, p + Len(CreditLabel))
       IN  a <= Len(s) /\ IsDigit(s[a])

credit_match(s) ==
    LET At(p) == CreditAt(s, p)
        p == First(Len(s), 1, At)
    IN  IF p = 0 THEN NoMatch
        ELSE LET a == SkipSpace(s, p + Len(CreditLabel))
             IN  Match(<<SubSeq(s, a, SkipDigits(s, a) - 1)>>)

\* The end of a lazy capture (.*?) that starts at b and stops before the first
\* occurrence of the closing label, or at the end of the text: (?:label|$).
LazyEnd(s, b, label) ==
    LET e == FindLit(s, b, label, TRUE)
    IN  IF e = 0 THEN Len(s) + 1 ELSE e

\* Mutant of m3: the capture stops at the nearest later label of any section.
m3_NearestLabel(s) ==
    LET p == FindLit(s, 1, PrerequisiteLabel, TRUE)
    IN  IF p = 0 THEN NoMatch
        ELSE LET b == SkipSpace(s, SkipSeparator(s, SkipSpace(s, p + Len(PrerequisiteLabel))))
                 ends == {LazyEnd(s, b, ObjectiveLabel), LazyEnd(s, b, OutcomesLabel),
                          LazyEnd(s, b, ContentsLabel)}
                 e == CHOOSE x \in ends : \A y \in ends : x <= y
             IN  Match(<<SubSeq(s, b, e - 1)>>)

\* Mutant of m3: re.IGNORECASE left out.
m3_CaseSensitive(s) ==
    LET p == FindLit(s, 1, PrerequisiteLabel, FALSE)
    IN  IF p = 0 THEN NoMatch
        ELSE LET b == SkipSpace(s, SkipSeparator(s, SkipSpace(s, p + Len(PrerequisiteLabel))))
                 e == FindLit(s, b, ObjectiveLabel, FALSE)
             IN  Match(<<SubSeq(s, b, (IF e = 0 THEN Len(s) + 1 ELSE e) - 1)>>)

\* Mutant of m3: the label abbreviated to "Prereq".
m3_Abbreviated(s) ==
    LET p == FindLit(s, 1, Str("Prereq"), TRUE)
    IN  IF p = 0 THEN NoMatch
        ELSE LET b == SkipSpace(s, SkipSeparator(s, SkipSpace(s, p + Len(Str("Prereq")))))
             IN  Match(<<SubSeq(s, b, LazyEnd(s, b, ObjectiveLabel) - 1)>>)

\* re.search(r'Prerequisite\s*[:\-]?\s*(.*?)(?:Course Objective|$)', search_text,
\*           re.IGNORECASE | re.DOTALL)
m3(s) ==
    LET p == FindLit(s, 1, PrerequisiteLabel, TRUE)
    IN  IF p = 0 THEN NoMatch
        ELSE LET b == SkipSpace(s, SkipSeparator(s, SkipSpace(s, p + Len(PrerequisiteLabel))))
             IN  Match(<<SubSeq(s, b, LazyEnd(s, b, ObjectiveLabel) - 1)>>)

\* re.search(r'Course Objective\s*[:\-]?\s*(.*?)Course Outcomes', search_text,
\*           re.IGNORECASE | re.DOTALL)
M4At(s, p) ==
    IF ~LitAt(s, p, ObjectiveLabel, TRUE) THEN <<0, 0>>
    ELSE LET b == SkipSpace(s, SkipSeparator(s, SkipSpace(s, p + Len(ObjectiveLabel))))
             e == FindLit(s, b, OutcomesLabel, TRUE)
         IN  IF e = 0 THEN <<0, 0>> ELSE <<b, e>>

m4(s) ==
    LET At(p) == M4At(s, p)[1] # 0
        p == First(Len(s), 1, At)
    IN  IF p = 0 THEN NoMatch
        ELSE Match(<<SubSeq(s, M4At(s, p)[1], M4At(s, p)[2] - 1)>>)

\* Mutant of OutcomesPrefixAt: "(COs)" and the colon optional after the label.
OutcomesPrefixAt_OptionalCOs(s, p) ==
    IF ~LitAt(s, p, OutcomesLabel, TRUE) THEN 0
    ELSE LET a == SkipSpace(s, p + Len(OutcomesLabel))
         IN  IF ~LitAt(s, a, COsLabel, TRUE) THEN p + Len(OutcomesLabel)
             ELSE LET c == SkipSpace(s, a + Len(COsLabel))
                  IN  IF c <= Len(s) /\ s[c] = ":" THEN c + 1 ELSE p + Len(OutcomesLabel)

\* The index after the label prefix of the outcomes pattern when it matches at p,
\* 0 if it does not: Course Outcomes\s*[(]COs[)]\s*:
OutcomesPrefixAt(s, p) ==
    IF ~LitAt(s, p, OutcomesLabel, TRUE) THEN 0
    ELSE LET a == SkipSpace(s, p + Len(OutcomesLabel))
         IN  IF ~LitAt(s, a, COsLabel, TRUE) THEN 0
             ELSE LET c == SkipSpace(s, a + Len(COsLabel))
                  IN  IF c <= Len(s) /\ s[c] = ":" THEN c + 1 ELSE 0

\* Mutant of m5: the closing label "Course Contents" required, no end-of-text alternative.
m5_NeedsContents(s) ==
    LET At(p) == OutcomesPrefixAt(s, p) # 0
                    /\ FindLit(s, OutcomesPrefixAt(s, p), ContentsLabel, TRUE) # 0
        p == First(Len(s), 1, At)
    IN  IF p = 0 THEN NoMatch
        ELSE LET b == OutcomesPrefixAt(s, p)
             IN  Match(<<SubSeq(s, b, FindLit(s, b, ContentsLabel, TRUE) - 1)>>)

\* re.search(r'Course Outcomes\s*[(]COs[)]\s*:(.*?)(?:Course Contents|$)', search_text,
\*           re.IGNORECASE | re.DOTALL)
m5(s) ==
    LET At(p) == OutcomesPrefixAt(s, p) # 0
        p == First(Len(s), 1, At)
    IN  IF p = 0 THEN NoMatch
        ELSE LET b == OutcomesPrefixAt(s, p)
             IN  Match(<<SubSeq(s, b, LazyEnd(s, b, ContentsLabel) - 1)>>)

\* CO\d at i (case-sensitive): what the lookahead (?=(CO\d+)|$) needs.
COAt(s, i) ==
    /\ LitAt(s, i, COToken, FALSE)
    /\ i + 2 <= Len(s)
    /\ IsDigit(s[i + 2])

\* (CO\d+)\s+ at i: the code token and at least one whitespace character after it.
COItemAt(s, i) ==
    /\ COAt(s, i)
    /\ LET d == SkipDigits(s, i + 2)
       IN  d <= Len(s) /\ IsSpace(s[d])

\* Mutant of NextCO: the description captured greedily to the end of the span.
NextCO_ToEnd(s, i) == Len(s) + 1

\* The first index j >= i of s with CO\d at j, Len(s)+1 if none: the end of (.*?)(?=(CO\d+)|$).
NextCO(s, i) ==
    LET At(p) == COAt(s, p)
        j == First(Len(s), i, At)
    IN  IF j = 0 THEN Len(s) + 1 ELSE j

\* re.findall(r'(CO\d+)\s+(.*?)(?=(CO\d+)|$)', outcomes_text, re.DOTALL) from index pos:
\* the non-overlapping matches from left to right, as <<group 1, group 2>>.
RECURSIVE FindAllFrom(_, _, _)
FindAllFrom(s, pos, acc) ==
    LET At(i) == COItemAt(s, i)
        q == First(Len(s), pos, At)
    IN  IF q = 0 THEN acc
        ELSE LET d == SkipDigits(s, q + 2)
                 w == SkipSpace(s, d)
                 e == NextCO(s, w)
             IN  FindAllFrom(s, e, Append(acc, <<SubSeq(s, q, d - 1), SubSeq(s, w, e - 1)>>))

outcomes_findall(outcomes_text) == FindAllFrom(outcomes_text, 1, <<>>)

\* [A-Z]{3}\d{3}\s+ at i (case-sensitive): the course header token of the page's text.
HeaderTokenAt(s, i) ==
    /\ i >= 1
    /\ i + 6 <= Len(s)
    /\ \A k \in 0..2 : IsUpper(s[i + k])
    /\ \A k \in 3..5 : IsDigit(s[i + k])
    /\ IsSpace(s[i + 6])

\* Mutant of m6: the capture stops before the header token of a following course.
m6_ToNextHeader(s) ==
    LET p == FindLit(s, 1, ContentsLabel, TRUE)
    IN  IF p = 0 THEN NoMatch
        ELSE LET b == SkipSpace(s, SkipSeparator(s, SkipSpace(s, p + Len(ContentsLabel))))
                 At(q) == HeaderTokenAt(s, q)
                 e == First(Len(s), b, At)
             IN  Match(<<SubSeq(s, b, (IF e = 0 THEN Len(s) + 1 ELSE e) - 1)>>)

\* re.search(r'Course Contents\s*[:\-]?\s*(.*)', search_text, re.IGNORECASE | re.DOTALL)
m6(s) ==
    LET p == FindLit(s, 1, ContentsLabel, TRUE)
    IN  IF p = 0 THEN NoMatch
        ELSE LET b == SkipSpace(s, SkipSeparator(s, SkipSpace(s, p + Len(ContentsLabel))))
             IN  Match(<<SubSeq(s, b, Len(s))>>)

(***************************************************************************)
(* parse_course_block                                                      *)
(***************************************************************************)

\* A sequence of one-character strings as one string (the inverse of Str).
RECURSIVE Join(_)
Join(s) ==
    IF Len(s) = 0 THEN ""
    ELSE IF Len(s) = 1 THEN s[1]
    ELSE LET h == Len(s) \div 2
         IN  Join(SubSeq(s, 1, h)) \o Join(SubSeq(s, h + 1, Len(s)))

\* Mutant of Truthy: .group() is called without the `if m:` guard.
Truthy_Unguarded(m) == TRUE

\* `if m:` on the result of re.match / re.search.
Truthy(m) == m.matched

\* m.group(k); on None it raises AttributeError (see Raises).
Group(m, k) == m.groups[k]

\* scheme_text.split('\n')[0]
first_line(scheme_text) == SplitFirst(scheme_text)

\* Mutant of search_text: the whole text is normalised before the searches.
search_text_Normalized(scheme_text) == clean_text(scheme_text)

\* search_text = scheme_text.replace('\n', ' ')
search_text(scheme_text) == ReplaceNewlines(scheme_text)

\* The match objects of one call on the string block; credit_match is computed
\* from the normalised capture of m2, inside `if m2:`.
Matches(block) ==
    LET s == search_text(block)
        sm == m2(s)
    IN  [header_match |-> header_match(first_line(block)),
         m2           |-> sm,
         credit_match |-> IF sm.matched THEN credit_match(clean_text(Group(sm, 1))) ELSE NoMatch,
         m3           |-> m3(s),
         m4           |-> m4(s),
         m5           |-> m5(s),
         m6           |-> m6(s)]

\* The exceptions of a call: [0] on an empty list of lines (IndexError) and
\* .group() on a None match (AttributeError), which every `if m:` guards.
Raises(block, ms) ==
    \/ SplitLen(block) < 1
    \/ Truthy(ms.header_match) /\ ~ms.header_match.matched
    \/ Truthy(ms.m2) /\ ~ms.m2.matched
    \/ Truthy(ms.m2) /\ Truthy(ms.credit_match) /\ ~ms.credit_match.matched
    \/ Truthy(ms.m3) /\ ~ms.m3.matched
    \/ Truthy(ms.m4) /\ ~ms.m4.matched
    \/ Truthy(ms.m5) /\ ~ms.m5.matched
    \/ Truthy(ms.m6) /\ ~ms.m6.matched

\* result['code'], result['title']
CodeField(hm) ==
    IF Truthy(hm) THEN PyStr(Join(Strip(Group(hm, 1)))) ELSE PyNone

TitleField(hm, line) ==
    IF Truthy(hm) THEN PyStr(Join(clean_text(Strip(Group(hm, 2)))))
    ELSE PyStr(Join(clean_text(line)))

\* result['teaching_scheme'], result['credit_hours']
TeachingSchemeField(m) ==
    IF Truthy(m) THEN PyStr(Join(clean_text(Group(m, 1)))) ELSE PyNone

CreditHoursField(m, cm) ==
    IF Truthy(m) /\ Truthy(cm) THEN PyStr(Join(Strip(Group(cm, 1)))) ELSE PyNone

\* result['prerequisite'], result['objective'], result['contents']
SectionField(m) ==
    IF Truthy(m) THEN PyStr(Join(clean_text(Group(m, 1)))) ELSE PyNone

\* Mutant of OutcomeEntry: the code cut to CO and one digit.
OutcomeEntry_OneDigit(oc) ==
    [code |-> Join(SubSeq(oc[1], 1, 3)), description |-> Join(clean_text(oc[2]))]

\* result['outcomes'].append({'code': oc[0].strip(), 'description': clean_text(oc[1])})
OutcomeEntry(oc) ==
    [code |-> Join(Strip(oc[1])), description |-> Join(clean_text(oc[2]))]

\* The entries appended to result['outcomes'], in order.
OutcomesField(m) ==
    IF Truthy(m)
    THEN LET outcomes == outcomes_findall(Group(m, 1))
         IN  [i \in 1..Len(outcomes) |-> OutcomeEntry(outcomes[i])]
    ELSE <<>>

\* The record a call returns (outcomes by value).
Record(block, ms) ==
    [code            |-> CodeField(ms.header_match),
     title           |-> TitleField(ms.header_match, first_line(block)),
     credit_hours    |-> CreditHoursField(ms.m2, ms.credit_match),
     teaching_scheme |-> TeachingSchemeField(ms.m2),
     prerequisite    |-> SectionField(ms.m3),
     objective       |-> SectionField(ms.m4),
     outcomes        |-> OutcomesField(ms.m5),
     contents        |-> SectionField(ms.m6)]

\* parse_course_block(block) for a str block: an exception, or the returned record.
parse_course_block(block) ==
    LET ms == Matches(block)
    IN  IF Raises(block, ms) THEN [exc |-> TRUE]
        ELSE [exc |-> FALSE, ret |-> Record(block, ms)]

(***************************************************************************)
(* The input blocks: a block is a list of text fragments, its string their *)
(* concatenation                                                           *)
(***************************************************************************)

MaxSections == 2    \* fragments after the header line, in any order
MaxOutcomes == 2    \* CO items of an outcomes section
MaxCalls == 3       \* calls of one batch

\* First lines.
EndToEndHeader == "CSE402 Computer and Cyber Security"
ColonHeader == "CSE487: Computer and Cyber Security"
DashHeader == "CSE479 - Web Programming"
LowerHeader == "cse1 intro"
LongHeader == "CSE12345 Thesis"
PlainHeader == "Intro  to\tAI "
Headers == {EndToEndHeader, ColonHeader, DashHeader, LowerHeader, LongHeader, PlainHeader, ""}

\* Sections.
SchemeSection == "\nCredit Hours and Teaching Scheme: Theory 3 Lab 0 Total 3"
SchemeSectionLower == "\ncredit hours and teaching scheme :\tCredit hours 3 "
PrerequisiteSection == "\nPrerequisite: CSE270"
PrerequisiteSectionUpper == "\nPREREQUISITE - None"
ObjectiveSection == "\nCourse Objective: To teach security."
OutcomesHeading == " Course Outcomes (COs):"
OutcomesHeadingBare == " Course Outcomes"
ContentsSection == " Course Contents Topics on cryptography."
AbbreviatedSection == "\nPrereq. CSE110"
BareCreditSection == "\nCredit Hours 3 Total 3"
SchemeSectionSpaced == "\nCredit Hours and Teaching Scheme: Credit \nhours 4"
BrokenObjectiveSection == "\nCourse\nObjective: Learn"
TabContentsSection == " Course\tContents Labs"
NextCourse == "\nCSE403 Networks"

\* CO items: a code token, the whitespace after it and a description.
WellFormedItems ==
    {[code |-> "CO1", sep |-> " ", description |-> "Identify threats."],
     [code |-> "CO2", sep |-> " ", description |-> "Apply\n crypto."],
     [code |-> "CO10", sep |-> "\t", description |-> "Assess risk"]}
ItemText(it) == " " \o it.code \o it.sep \o it.description
MentionItem == " CO3 builds on CO1 and CO2."
ColonItem == " CO4: Explain"
ItemTexts == {ItemText(it) : it \in WellFormedItems} \cup {MentionItem, ColonItem}

BodyFragments ==
    {SchemeSection, SchemeSectionLower, PrerequisiteSection, PrerequisiteSectionUpper,
     ObjectiveSection, OutcomesHeading, OutcomesHeadingBare, ContentsSection}
        \cup ItemTexts

\* The sequences over S of length at most n.
RECURSIVE SeqsUpTo(_, _)
SeqsUpTo(S, n) ==
    IF n = 0 THEN {<<>>}
    ELSE LET shorter == SeqsUpTo(S, n - 1)
         IN  shorter \cup {Append(q, x) : q \in shorter, x \in S}

Opt(x) == {<<>>, <<x>>}

\* A first line followed by fragments in any order, repetitions included.
FreeDocs ==
    {<<h>> \o b : h \in {EndToEndHeader, PlainHeader}, b \in SeqsUpTo(BodyFragments, MaxSections)}

\* A course in the page's layout: each section present or not, the outcomes
\* section with either heading and up to MaxOutcomes items.
LayoutDocs ==
    {<<EndToEndHeader>> \o sc \o pr \o ob \o oc \o ct :
        sc \in Opt(SchemeSection), pr \in Opt(PrerequisiteSection), ob \in Opt(ObjectiveSection),
        oc \in {<<>>} \cup {<<h>> \o its : h \in {OutcomesHeading, OutcomesHeadingBare},
                                          its \in SeqsUpTo(ItemTexts, MaxOutcomes)},
        ct \in Opt(ContentsSection)}

\* Every first line, alone and before a section.
HeaderDocs ==
    {<<h>> \o b : h \in Headers, b \in {<<>>, <<PrerequisiteSection>>, <<ContentsSection>>, <<AbbreviatedSection>>}}

\* The empty string as a block.
EmptyDoc == <<>>

\* Sections whose label is written another way: without "and Teaching Scheme",
\* over two lines, with a tab; and the first line of a following course.
OddFragments ==
    {BareCreditSection, SchemeSectionSpaced, BrokenObjectiveSection, TabContentsSection, NextCourse}

\* Blocks with repeated labels, with labels written another way and with the
\* text of a second course.
OddDocs ==
    {<<EndToEndHeader>> \o b : b \in
        {<<SchemeSectionLower, SchemeSection, PrerequisiteSection, PrerequisiteSectionUpper>>,
         <<ObjectiveSection, BrokenObjectiveSection, OutcomesHeadingBare, OutcomesHeading>>,
         <<OutcomesHeadingBare, " CO1 Identify threats.", OutcomesHeading, " CO2 Apply\n crypto.">>,
         <<OutcomesHeadingBare, ContentsSection, OutcomesHeading, " CO1 Identify threats.", ContentsSection>>,
         <<PrerequisiteSection, ObjectiveSection, ObjectiveSection, OutcomesHeading>>,
         <<SchemeSectionSpaced, PrerequisiteSection, ContentsSection, NextCourse, PrerequisiteSectionUpper>>,
         <<SchemeSection, PrerequisiteSection, ObjectiveSection, OutcomesHeading,
           " CO1 Identify threats.", ContentsSection, NextCourse, SchemeSectionLower,
           PrerequisiteSectionUpper, ContentsSection>>}}
    \cup {<<EndToEndHeader, x, y>> : x \in OddFragments,
                                      y \in {PrerequisiteSection, OutcomesHeadingBare, ContentsSection}}
    \cup {<<EndToEndHeader, y, x>> : x \in OddFragments,
                                      y \in {PrerequisiteSection, ObjectiveSection, ContentsSection}}

Docs == FreeDocs \cup LayoutDocs \cup HeaderDocs \cup OddDocs \cup {EmptyDoc}

\* The end-to-end input of the specification.
EndToEndDoc ==
    <<EndToEndHeader, SchemeSection, PrerequisiteSection, ObjectiveSection, OutcomesHeading,
      " CO1 Identify threats.", ContentsSection>>

\* The blocks of a batch.
BatchDocs ==
    {<<EndToEndHeader, OutcomesHeading, ItemText([code |-> "CO1", sep |-> " ", description |-> "Identify threats."])>>,
     <<ColonHeader, PrerequisiteSection>>,
     <<EndToEndHeader, OutcomesHeading, MentionItem, ContentsSection>>,
     <<PlainHeader>>,
     EmptyDoc}

\* The string of a block.
RECURSIVE Concat(_, _, _)
Concat(d, i, acc) ==
    IF i > Len(d) THEN acc ELSE Concat(d, i + 1, acc \o d[i])

Text(d) == Str(Concat(d, 1, ""))

(***************************************************************************)
(* The calls                                                               *)
(***************************************************************************)

\* Mutant of NewList: one list object shared by every call (a module-level default).
NewList_Shared(h) == 1

\* 'outcomes': [] in the dict literal of each call: a new list object.
NewList(h) == Len(h) + 1

\* The list a after the call's appends.
Appended(h, a, entries) ==
    IF a > Len(h) THEN Append(h, entries)
    ELSE [h EXCEPT ![a] = @ \o entries]

\* One call parse_course_block(Text(d)): the record's outcomes list is allocated,
\* the entries are appended to it and the record is returned; `returned` is the
\* record as the caller sees it at the return.
Call(d) ==
    \E r \in {parse_course_block(Text(d))} :
        /\ doc' = d
        /\ IF r.exc
           THEN /\ calls' = Append(calls, [block |-> d, exc |-> TRUE])
                /\ heap' = heap
           ELSE LET a == NewList(heap)
                    h == Appended(heap, a, r.ret.outcomes)
                IN  /\ calls' = Append(calls, [block |-> d, exc |-> FALSE, list |-> a,
                                                returned |-> [r.ret EXCEPT !.outcomes = h[a]]])
                    /\ heap' = h

\* No page is being scraped.
NoScrape ==
    /\ page = [ok |-> FALSE]
    /\ pc = "idle"
    /\ blocks = <<>>
    /\ idx = 0
    /\ courses = <<>>
    /\ url = ""

\* No script is running and nothing was sent.
NoRun ==
    /\ net = <<>>
    /\ course_main = [pc |-> "idle"]
    /\ scraper = [pc |-> "idle"]
    /\ faculty = [pc |-> "idle"]
    /\ homepage = [pc |-> "idle"]

Init ==
    /\ doc \in Docs
    /\ calls = <<>>
    /\ heap = <<>>
    /\ NoScrape
    /\ NoRun

\* The extractor is called once on the block.
Next == calls = <<>> /\ Call(doc) /\ UNCHANGED <<scrapeVars, net, runVars>>

Spec == Init /\ [][Next]_vars

InitBatch ==
    /\ doc \in BatchDocs
    /\ calls = <<>>
    /\ heap = <<>>
    /\ NoScrape
    /\ NoRun

\* A batch: the blocks are parsed in any order, any of them any number of times.
NextBatch ==
    Len(calls) < MaxCalls /\ (\E d \in BatchDocs : Call(d)) /\ UNCHANGED <<scrapeVars, net, runVars>>

SpecBatch == InitBatch /\ [][NextBatch]_vars

(***************************************************************************)
(* scrape_courses_from_page: the page, its course blocks and the loop that *)
(* parses them                                                             *)
(***************************************************************************)

MaxContainers == 3    \* elements the soup finds as course containers

\* A Tag is the list of its text nodes. Its strings with strip=True: every node
\* stripped, the empty ones skipped.
StrippedStrings(tag) ==
    LET all == [i \in 1..Len(tag) |-> Strip(Str(tag[i]))]
        NonEmpty(x) == x # <<>>
    IN  SelectSeq(SubSeq(all, 1, Len(tag)), NonEmpty)

RECURSIVE JoinWith(_, _, _, _)
JoinWith(strs, sep, i, acc) ==
    IF i > Len(strs) THEN acc
    ELSE JoinWith(strs, sep, i + 1, IF i = 1 THEN strs[1] ELSE acc \o sep \o strs[i])

\* tag.get_text(separator=..., strip=True)
get_text(tag, separator) == JoinWith(StrippedStrings(tag), separator, 1, <<>>)

\* A block handed to parse_course_block: a Tag or a str.
TagBlock(tag) == [type |-> "Tag", strings |-> tag]
StrBlock(s) == [type |-> "str", val |-> s]

\* scheme_text: block.get_text(separator="\n", strip=True) for a Tag, the block itself for a str.
scheme_text(block) ==
    IF block.type = "Tag" THEN get_text(block.strings, <<"\n">>) ELSE block.val

\* re.search(r'[A-Z]{3}\d{3}', container_text)
ContainsCode(container_text) ==
    \E q \in 1..(Len(container_text) - 5) :
        /\ \A k \in 0..2 : IsUpper(container_text[q + k])
        /\ \A k \in 3..5 : IsDigit(container_text[q + k])

\* len(container_text) > 100
MinContainerLen == 100

\* The loop that fills unique_containers: a container is kept when its text is
\* long enough, was not seen before and holds a course code.
RECURSIVE UniqueFrom(_, _, _, _)
UniqueFrom(course_containers, i, unique, seen_text) ==
    IF i > Len(course_containers) THEN unique
    ELSE LET container_text == get_text(course_containers[i], <<>>)
         IN  IF /\ Len(container_text) > MinContainerLen
                /\ container_text \notin seen_text
                /\ ContainsCode(container_text)
             THEN UniqueFrom(course_containers, i + 1, Append(unique, course_containers[i]),
                             seen_text \cup {container_text})
             ELSE UniqueFrom(course_containers, i + 1, unique, seen_text)

unique_containers(course_containers) == UniqueFrom(course_containers, 1, <<>>, {})

\* re.split(r'([A-Z]{3}\d{3}\s+.*?)', full_text) after its first element: the
\* pairs <<header, content>> of course_blocks_raw[i], course_blocks_raw[i+1].
\* The lazy .*? at the end of the pattern matches nothing: a header is the code
\* token and the whitespace after it.
RECURSIVE SplitFrom(_, _, _)
SplitFrom(full_text, pos, acc) ==
    LET At(q) == HeaderTokenAt(full_text, q)
        h == First(Len(full_text), pos, At)
    IN  IF h = 0 THEN acc
        ELSE LET e == SkipSpace(full_text, h + 6)
                 n == First(Len(full_text), e, At)
                 stop == IF n = 0 THEN Len(full_text) + 1 ELSE n
             IN  SplitFrom(full_text, stop,
                           Append(acc, <<SubSeq(full_text, h, e - 1), SubSeq(full_text, e, stop - 1)>>))

course_blocks_raw(full_text) == SplitFrom(full_text, 1, <<>>)

\* full_course_text = header + "\n" + content
full_course_text(pair) == pair[1] \o <<"\n">> \o pair[2]

\* Python's truth value of a field: None and "" are false.
PyTruthy(v) == v.type = "str" /\ v.val # ""

\* Mutant of Keeps: every parsed record is appended, with or without a code.
Keeps_Every(parsed_course) == TRUE

\* if parsed_course.get('code'):
Keeps(parsed_course) == PyTruthy(parsed_course.code)

\* The elements the soup finds as course containers.
CourseTag == EndToEndDoc
SecondCourseTag ==
    <<DashHeader, SchemeSectionLower, PrerequisiteSectionUpper, ObjectiveSection, OutcomesHeadingBare>>
UntitledTag == <<PlainHeader, "  ", SchemeSection, PrerequisiteSection, ObjectiveSection>>
ShortTag == <<ColonHeader, PrerequisiteSection>>
ContainerTags == {CourseTag, SecondCourseTag, UntitledTag, ShortTag}

\* The main content column (div.col-sm-8), when the page has one: with the text
\* of two courses, of one course, and without any course header.
TwoCoursesColumn ==
    <<"Courses", EndToEndHeader, SchemeSection, PrerequisiteSection, ObjectiveSection,
      NextCourse, ContentsSection>>
OneCourseColumn == <<"Courses", EndToEndHeader, SchemeSection, ObjectiveSection>>
NoCourseColumn == <<PlainHeader, PrerequisiteSection>>
MainColumns == {<<>>, <<TwoCoursesColumn>>, <<OneCourseColumn>>, <<NoCourseColumn>>}

\* A page: the request fails, or the soup finds containers and a main column.
Pages ==
    {[ok |-> FALSE]}
        \cup {[ok |-> TRUE, containers |-> cs, main |-> m] :
                cs \in SeqsUpTo(ContainerTags, MaxContainers), m \in MainColumns}

\* An entry of net: a request with its outcome (a response with a 2xx status, or
\* a RequestException of requests.get or raise_for_status), and a sleep.
Get(u, ok) == [op |-> "get", url |-> u, ok |-> ok]
Sleep(secs) == [op |-> "sleep", secs |-> secs]

\* requests.get / raise_for_status: on a RequestException the function returns [].
Fetch ==
    /\ pc = "fetch"
    /\ net' = Append(net, Get(url, page.ok))
    /\ pc' = IF page.ok THEN "soup" ELSE "done"
    /\ UNCHANGED <<doc, calls, heap, page, blocks, idx, courses, url, runVars>>

\* The containers are filtered; without any, the text of the main column is
\* split into course blocks (without a main column the loop over the empty
\* unique_containers follows).
FindBlocks ==
    /\ pc = "soup"
    /\ \E unique \in {unique_containers(page.containers)} :
          IF unique # <<>>
          THEN /\ blocks' = [i \in 1..Len(unique) |-> TagBlock(unique[i])]
               /\ pc' = "containers"
          ELSE IF page.main # <<>>
          THEN \E raw \in {course_blocks_raw(get_text(page.main[1], <<"\n">>))} :
                  /\ blocks' = [i \in 1..Len(raw) |-> StrBlock(full_course_text(raw[i]))]
                  /\ pc' = "split"
          ELSE /\ blocks' = <<>>
               /\ pc' = "containers"
    /\ UNCHANGED <<doc, calls, heap, page, idx, courses, url, net, runVars>>

\* One turn of a loop: the next block is parsed and the record appended to
\* courses if it has a code; an exception of the parser leaves the function.
ParseBlock(loop) ==
    /\ pc = loop
    /\ idx < Len(blocks)
    /\ Call(<<Join(scheme_text(blocks[idx + 1]))>>)
    /\ idx' = idx + 1
    /\ LET parsed == calls'[Len(calls')]
       IN  IF parsed.exc
           THEN /\ pc' = "raised"
                /\ courses' = courses
           ELSE /\ pc' = pc
                /\ courses' = IF Keeps(parsed.returned) THEN Append(courses, parsed.returned)
                              ELSE courses
    /\ UNCHANGED <<page, blocks, url, net, runVars>>

\* for container in unique_containers: ...
ParseContainer == ParseBlock("containers")

\* for i in range(1, len(course_blocks_raw), 2): ...
ParseSplitBlock == ParseBlock("split")

\* return courses
Return ==
    /\ pc \in {"containers", "split"}
    /\ idx = Len(blocks)
    /\ pc' = "done"
    /\ UNCHANGED <<doc, calls, heap, page, blocks, idx, courses, url, net, runVars>>

\* Mutant of urls: the first page is listed twice.
urls_Repeated ==
    <<"https://fse.ewubd.edu/computer-science-engineering/core-courses",
      "https://fse.ewubd.edu/computer-science-engineering/core-courses">>

\* The urls of main.
urls ==
    <<"https://fse.ewubd.edu/computer-science-engineering/core-courses",
      "https://fse.ewubd.edu/computer-science-engineering/elective-courses">>

InitScrape ==
    /\ doc = EmptyDoc
    /\ calls = <<>>
    /\ heap = <<>>
    /\ page \in Pages
    /\ pc = "fetch"
    /\ blocks = <<>>
    /\ idx = 0
    /\ courses = <<>>
    /\ url = urls[1]
    /\ NoRun

NextScrape == Fetch \/ FindBlocks \/ ParseContainer \/ ParseSplitBlock \/ Return

SpecScrape == InitScrape /\ [][NextScrape]_vars

(***************************************************************************)
(* main of course.py: the two pages are scraped one after the other and    *)
(* the result is written as one JSON document                              *)
(***************************************************************************)

\* A Python dict with string keys: a function on the set of its keys.
EmptyDict == <<>>
SetItem(d, k, v) == [x \in DOMAIN d \cup {k} |-> IF x = k THEN v ELSE d[x]]

\* lit in s
In(lit, s) == FindLit(Str(s), 1, Str(lit), FALSE) # 0

\* Mutant of key: every page is stored as core_courses.
key_AlwaysCore(u) == "core_courses"

\* key = 'core_courses' if 'core-courses' in url else 'elective_courses'
key(u) == IF In("core-courses", u) THEN "core_courses" ELSE "elective_courses"

\* What a page of the site answers when main asks for it: an error, a page
\* without any course, a page with a course container, a page whose main column
\* holds the text of the courses.
MainPages ==
    {[ok |-> FALSE],
     [ok |-> TRUE, containers |-> <<>>, main |-> <<>>],
     [ok |-> TRUE, containers |-> <<CourseTag>>, main |-> <<>>],
     [ok |-> TRUE, containers |-> <<>>, main |-> <<TwoCoursesColumn>>]}

\* for url in urls: ... scrape_courses_from_page(url) is called.
MainCall ==
    /\ course_main.pc = "loop"
    /\ course_main.done < Len(urls)
    /\ course_main' = [course_main EXCEPT !.pc = "call"]
    /\ url' = urls[course_main.done + 1]
    /\ page' \in MainPages
    /\ pc' = "fetch"
    /\ blocks' = <<>>
    /\ idx' = 0
    /\ courses' = <<>>
    /\ UNCHANGED <<doc, calls, heap, net, scraper, faculty, homepage>>

\* all_data[key] = <the list returned>
MainStore ==
    /\ course_main.pc = "call"
    /\ pc = "done"
    /\ course_main' = [course_main EXCEPT !.pc = "loop", !.done = @ + 1,
                                          !.all_data = SetItem(@, key(url), courses)]
    /\ pc' = "idle"
    /\ UNCHANGED <<doc, calls, heap, page, blocks, idx, courses, url, net,
                   scraper, faculty, homepage>>

\* json.dump(all_data, f, ...)
MainDump ==
    /\ course_main.pc = "loop"
    /\ course_main.done = Len(urls)
    /\ course_main' = [course_main EXCEPT !.pc = "done", !.output = course_main.all_data]
    /\ UNCHANGED <<parseVars, scrapeVars, net, scraper, faculty, homepage>>

InitMain ==
    /\ doc = EmptyDoc
    /\ calls = <<>>
    /\ heap = <<>>
    /\ NoScrape
    /\ net = <<>>
    /\ course_main = [pc |-> "loop", done |-> 0, all_data |-> EmptyDict, output |-> PyNone]
    /\ scraper = [pc |-> "idle"]
    /\ faculty = [pc |-> "idle"]
    /\ homepage = [pc |-> "idle"]

NextMain ==
    \/ MainCall
    \/ Fetch
    \/ FindBlocks
    \/ ParseContainer
    \/ ParseSplitBlock
    \/ Return
    \/ MainStore
    \/ MainDump

SpecMain == InitMain /\ [][NextMain]_vars

(***************************************************************************)
(* ewuscraper.py: EWUCSEScraper, its fetch_page with retries and           *)
(* scrape_all, which scrapes the sections of the site one after the other  *)
(***************************************************************************)

MaxRetries == 3     \* the largest argument `retries` of fetch_page
MaxFailures == 6    \* the largest number of requests that fail in one run

\* Durations of time.sleep, in milliseconds.
PoliteSleep == 1000     \* time.sleep(1) after a response
RetrySleep == 2000      \* time.sleep(2) before the next attempt
ProfileSleep == 500     \* time.sleep(0.5) at the end of scrape_faculty_profile
DefaultRetries == 3     \* retries: int = 3

\* dict.update
Update(d, e) == [x \in DOMAIN d \cup DOMAIN e |-> IF x \in DOMAIN e THEN e[x] ELSE d[x]]

\* dict.get(k) of a dict of strings, None for a missing key; its truth value.
DictGet(d, k) == IF k \in DOMAIN d THEN PyStr(d[k]) ELSE PyNone

base_url == "https://fse.ewubd.edu/computer-science-engineering"

\* The calls of scrape_all, in its order: the method and its argument.
Steps ==
    <<[fn |-> "scrape_department_info", arg |-> ""],
      [fn |-> "scrape_faculty_members", arg |-> ""],
      [fn |-> "scrape_courses", arg |-> "core-courses"],
      [fn |-> "scrape_courses", arg |-> "elective-courses"],
      [fn |-> "scrape_programs", arg |-> "undergraduate"],
      [fn |-> "scrape_programs", arg |-> "graduate"],
      [fn |-> "scrape_lab_facilities", arg |-> ""],
      [fn |-> "scrape_administrative_officials", arg |-> ""]>>

\* The url a method fetches.
StepUrl(s) ==
    CASE s.fn = "scrape_department_info" -> base_url
      [] s.fn = "scrape_faculty_members" -> base_url \o "/faculty-members"
      [] s.fn = "scrape_courses" -> base_url \o "/" \o s.arg
      [] s.fn = "scrape_programs" -> base_url \o "/" \o s.arg \o "-programs"
      [] s.fn = "scrape_lab_facilities" -> base_url \o "/lab-facilities"
      [] s.fn = "scrape_administrative_officials" -> base_url \o "/administrative-officials"

\* faculty['profile_url'] = f"https://fse.ewubd.edu{element['href']}"
ProfileUrl(href) == "https://fse.ewubd.edu" \o href

\* self.data after __init__.
InitialData ==
    [department_info |-> EmptyDict,
     faculty_members |-> <<>>,
     courses |-> [core_courses |-> <<>>, elective_courses |-> <<>>],
     programs |-> [undergraduate |-> EmptyDict, graduate |-> EmptyDict],
     lab_facilities |-> <<>>,
     administrative_officials |-> <<>>,
     metadata |-> [scraped_at |-> "now", source |-> "East West University CSE Department"]]

\* A soup is what the finds of the method that reads it return. The elements
\* of the faculty page: a link with a name, a link without one, a div.
NamedLink == [tag |-> "a", href |-> "/faculty-view/1", name |-> "Dr. A", designation |-> "Professor"]
UnnamedLink == [tag |-> "a", href |-> "/faculty-view/2", name |-> "", designation |-> ""]
NamedDiv == [tag |-> "div", href |-> "/faculty-view/3", name |-> "Dr. C", designation |-> ""]

SectionUrls == {StepUrl(Steps[i]) : i \in 1..Len(Steps)}
ProfileUrls == {ProfileUrl(e.href) : e \in {NamedLink, UnnamedLink, NamedDiv}}

\* A site without anything to extract, and one with something on every page.
EmptySoup ==
    [info |-> EmptyDict, faculty_elements |-> <<>>, profile |-> EmptyDict,
     course_codes |-> <<>>, program_data |-> [description |-> ""],
     lab_sections |-> <<>>, officials |-> <<>>]
FullSoup ==
    [info |-> [chairperson_name |-> "Dr. X", description |-> "About"],
     faculty_elements |-> <<NamedLink, UnnamedLink, NamedDiv>>,
     profile |-> [email |-> "a@ewubd.edu"],
     course_codes |-> <<[course_code |-> "CSE103"]>>,
     program_data |-> [description |-> "BSc"],
     lab_sections |-> <<[name |-> "Lab 1"], EmptyDict>>,
     officials |-> <<[name |-> "Mr. Y"], [designation |-> "Officer"]>>]
Sites ==
    {[u \in SectionUrls \cup ProfileUrls |-> EmptySoup],
     [u \in SectionUrls \cup ProfileUrls |-> FullSoup]}

\* The failed requests of the run so far.
Failures ==
    LET Failed(e) == e.op = "get" /\ ~e.ok
    IN  Len(SelectSeq(net, Failed))

\* fetch_page is called: attempt is the loop variable, ret the caller's position
\* at the return.
FetchPageCall(s, u, retries, ret) ==
    [s EXCEPT !.pc = "fetch_page", !.url = u, !.retries = retries, !.attempt = 0,
              !.soup = PyNone, !.ret = ret]

\* Mutant of RetrySleepAfter: no sleep between the attempts.
RetrySleep_None(attempt, retries) == <<>>

\* time.sleep(2) after a failed attempt, but for the last one.
RetrySleepAfter(attempt, retries) ==
    IF attempt = retries - 1 THEN <<>> ELSE <<Sleep(RetrySleep)>>

\* One turn of `for attempt in range(retries)`: the request succeeds, the
\* function sleeps and returns the soup; or it fails, and the function returns
\* None after the last attempt and sleeps before the next one otherwise.
FetchAttempt ==
    /\ scraper.pc = "fetch_page"
    /\ scraper.attempt < scraper.retries
    /\ \E ok \in BOOLEAN :
          /\ ~ok => Failures < MaxFailures
          /\ IF ok
             THEN /\ net' = net \o <<Get(scraper.url, TRUE), Sleep(PoliteSleep)>>
                  /\ scraper' = [scraper EXCEPT !.pc = scraper.ret,
                                                !.soup = scraper.site[scraper.url]]
             ELSE /\ net' = net \o <<Get(scraper.url, FALSE)>>
                              \o RetrySleepAfter(scraper.attempt, scraper.retries)
                  /\ scraper' = IF scraper.attempt = scraper.retries - 1
                                THEN [scraper EXCEPT !.pc = scraper.ret, !.soup = PyNone]
                                ELSE [scraper EXCEPT !.attempt = @ + 1]
    /\ UNCHANGED <<parseVars, scrapeVars, course_main, faculty, homepage>>

\* The loop ends without a turn (retries = 0): return None.
FetchExhausted ==
    /\ scraper.pc = "fetch_page"
    /\ scraper.attempt >= scraper.retries
    /\ scraper' = [scraper EXCEPT !.pc = scraper.ret, !.soup = PyNone]
    /\ UNCHANGED <<parseVars, scrapeVars, net, course_main, faculty, homepage>>

\* A scraper that has just been constructed, in front of a site.
NewScraper(site) ==
    [pc |-> "idle", site |-> site, data |-> InitialData, step |-> 0,
     url |-> "", retries |-> 0, attempt |-> 0, soup |-> PyNone, ret |-> "",
     elements |-> <<>>, element |-> 0, faculty |-> EmptyDict]

\* fetch_page(url, retries) is called on its own.
InitFetchPage ==
    /\ doc = EmptyDoc
    /\ calls = <<>>
    /\ heap = <<>>
    /\ NoScrape
    /\ net = <<>>
    /\ course_main = [pc |-> "idle"]
    /\ \E site \in Sites, u \in SectionUrls, retries \in 0..MaxRetries :
          scraper = FetchPageCall(NewScraper(site), u, retries, "returned")
    /\ faculty = [pc |-> "idle"]
    /\ homepage = [pc |-> "idle"]

NextFetchPage == FetchAttempt \/ FetchExhausted

SpecFetchPage == InitFetchPage /\ [][NextFetchPage]_vars

\* The interpreter runs the function to its return: a request returns within its
\* timeout and a sleep ends, so a turn of the loop that can be taken is taken.
SpecFetchPageFair == SpecFetchPage /\ WF_vars(NextFetchPage)

\* The method scrape_all is in, once it has called one.
Step == Steps[scraper.step + 1]

\* The method returns to scrape_all.
SectionDone(s) == [s EXCEPT !.pc = "scrape_all", !.step = @ + 1]

\* scrape_all calls its next method, which calls fetch_page on its url.
ScrapeAllCall ==
    /\ scraper.pc = "scrape_all"
    /\ scraper.step < Len(Steps)
    /\ scraper' = FetchPageCall(scraper, StepUrl(Step), DefaultRetries, "section")
    /\ UNCHANGED <<parseVars, scrapeVars, net, course_main, faculty, homepage>>

\* if not soup: return
SkipSection ==
    /\ scraper.pc = "section"
    /\ scraper.soup = PyNone
    /\ scraper' = SectionDone(scraper)
    /\ UNCHANGED <<parseVars, scrapeVars, net, course_main, faculty, homepage>>

\* The method fn has its soup.
Fetched(fn) ==
    /\ scraper.pc = "section"
    /\ scraper.soup # PyNone
    /\ Step.fn = fn

\* scrape_department_info: what the finds return is stored in department_info.
ScrapeDepartmentInfo ==
    /\ Fetched("scrape_department_info")
    /\ scraper' = SectionDone([scraper EXCEPT
                      !.data.department_info = Update(@, scraper.soup.info)])
    /\ UNCHANGED <<parseVars, scrapeVars, net, course_main, faculty, homepage>>

\* scrape_faculty_members: faculty_elements = soup.find_all(...), then the loop.
ScrapeFacultyMembers ==
    /\ Fetched("scrape_faculty_members")
    /\ scraper' = [scraper EXCEPT !.pc = "elements", !.element = 0,
                                  !.elements = scraper.soup.faculty_elements]
    /\ UNCHANGED <<parseVars, scrapeVars, net, course_main, faculty, homepage>>

\* The dict `faculty` of an element before its profile is read.
FacultyOf(element) ==
    LET named == [name |-> element.name]
        designated == IF element.designation # "" /\ Len(Str(element.designation)) < 100
                      THEN Update(named, [designation |-> element.designation])
                      ELSE named
    IN  IF element.tag = "a" /\ element.href # ""
        THEN Update(designated, [profile_url |-> ProfileUrl(element.href)])
        ELSE designated

\* if faculty.get('name'): self.data['faculty_members'].append(faculty)
WithFaculty(data, f) ==
    IF PyTruthy(DictGet(f, "name"))
    THEN [data EXCEPT !.faculty_members = Append(@, f)]
    ELSE data

\* A turn of the loop over faculty_elements, up to the call of
\* scrape_faculty_profile when the element has a profile_url, to its end otherwise.
FacultyElement ==
    /\ scraper.pc = "elements"
    /\ scraper.element < Len(scraper.elements)
    /\ LET f == FacultyOf(scraper.elements[scraper.element + 1])
       IN  IF PyTruthy(DictGet(f, "profile_url"))
           THEN scraper' = FetchPageCall([scraper EXCEPT !.faculty = f],
                                         f.profile_url, DefaultRetries, "profile")
           ELSE scraper' = [scraper EXCEPT !.element = @ + 1,
                                           !.data = WithFaculty(@, f)]
    /\ UNCHANGED <<parseVars, scrapeVars, net, course_main, faculty, homepage>>

\* scrape_faculty_profile after its fetch_page: {} without a soup, the profile
\* and a sleep with one; then the rest of the turn of the loop.
FacultyProfile ==
    /\ scraper.pc = "profile"
    /\ LET profile == IF scraper.soup = PyNone THEN EmptyDict ELSE scraper.soup.profile
           f == Update(scraper.faculty, profile)
       IN  /\ scraper' = [scraper EXCEPT !.pc = "elements", !.element = @ + 1,
                                         !.data = WithFaculty(@, f)]
           /\ net' = IF scraper.soup = PyNone THEN net ELSE Append(net, Sleep(ProfileSleep))
    /\ UNCHANGED <<parseVars, scrapeVars, course_main, faculty, homepage>>

\* The loop over faculty_elements ends.
FacultyDone ==
    /\ scraper.pc = "elements"
    /\ scraper.element = Len(scraper.elements)
    /\ scraper' = SectionDone(scraper)
    /\ UNCHANGED <<parseVars, scrapeVars, net, course_main, faculty, homepage>>

\* Mutant of course_list: every course goes to core_courses.
course_list_Core(course_type) == "core_courses"

\* if course_type == 'core-courses': ...['core_courses'] else: ...['elective_courses']
course_list(course_type) ==
    IF course_type = "core-courses" THEN "core_courses" ELSE "elective_courses"

\* scrape_courses: every course found is appended to the list of its type.
ScrapeCourses ==
    /\ Fetched("scrape_courses")
    /\ scraper' = SectionDone([scraper EXCEPT
                      !.data.courses[course_list(Step.arg)] = @ \o scraper.soup.course_codes])
    /\ UNCHANGED <<parseVars, scrapeVars, net, course_main, faculty, homepage>>

\* if program_type == 'undergraduate': ...['undergraduate'] else: ...['graduate']
program_key(program_type) ==
    IF program_type = "undergraduate" THEN "undergraduate" ELSE "graduate"

\* scrape_programs: program_data is stored under the type of the program.
ScrapePrograms ==
    /\ Fetched("scrape_programs")
    /\ scraper' = SectionDone([scraper EXCEPT
                      !.data.programs[program_key(Step.arg)] = scraper.soup.program_data])
    /\ UNCHANGED <<parseVars, scrapeVars, net, course_main, faculty, homepage>>

\* if lab_data: self.data['lab_facilities'].append(lab_data)
NonEmptyDict(d) == DOMAIN d # {}

\* scrape_lab_facilities
ScrapeLabFacilities ==
    /\ Fetched("scrape_lab_facilities")
    /\ scraper' = SectionDone([scraper EXCEPT
                      !.data.lab_facilities = @ \o SelectSeq(scraper.soup.lab_sections, NonEmptyDict)])
    /\ UNCHANGED <<parseVars, scrapeVars, net, course_main, faculty, homepage>>

\* if official_data.get('name'): self.data['administrative_officials'].append(official_data)
HasName(d) == PyTruthy(DictGet(d, "name"))

\* scrape_administrative_officials
ScrapeAdministrativeOfficials ==
    /\ Fetched("scrape_administrative_officials")
    /\ scraper' = SectionDone([scraper EXCEPT
                      !.data.administrative_officials = @ \o SelectSeq(scraper.soup.officials, HasName)])
    /\ UNCHANGED <<parseVars, scrapeVars, net, course_main, faculty, homepage>>

\* The last method has returned.
ScrapeAllDone ==
    /\ scraper.pc = "scrape_all"
    /\ scraper.step = Len(Steps)
    /\ scraper' = [scraper EXCEPT !.pc = "done"]
    /\ UNCHANGED <<parseVars, scrapeVars, net, course_main, faculty, homepage>>

InitScrapeAll ==
    /\ doc = EmptyDoc
    /\ calls = <<>>
    /\ heap = <<>>
    /\ NoScrape
    /\ net = <<>>
    /\ course_main = [pc |-> "idle"]
    /\ \E site \in Sites : scraper = [NewScraper(site) EXCEPT !.pc = "scrape_all"]
    /\ faculty = [pc |-> "idle"]
    /\ homepage = [pc |-> "idle"]

NextScrapeAll ==
    \/ ScrapeAllCall
    \/ FetchAttempt
    \/ SkipSection
    \/ ScrapeDepartmentInfo
    \/ ScrapeFacultyMembers
    \/ FacultyElement
    \/ FacultyProfile
    \/ FacultyDone
    \/ ScrapeCourses
    \/ ScrapePrograms
    \/ ScrapeLabFacilities
    \/ ScrapeAdministrativeOfficials
    \/ ScrapeAllDone

SpecScrapeAll == InitScrapeAll /\ [][NextScrapeAll]_vars

(***************************************************************************)
(* faculty.py: get_faculty_links, which collects the profile links of the  *)
(* faculty page, and scrape_all_faculty, which scrapes them in a loop      *)
(***************************************************************************)

MaxLinks == 2    \* the <a href> elements of the faculty page
MaxCards == 1    \* its faculty cards

faculty_url == "https://fse.ewubd.edu/computer-science-engineering/faculty-members"

\* The positions of the slashes of s.
Slashes(s) == {i \in 1..Len(s) : s[i] = "/"}

\* s starts with lit.
StartsWith(s, lit) == LitAt(s, 1, lit, FALSE)

\* urllib.parse.urljoin(base, href) for an http(s) base and an href that is
\* empty, absolute, an absolute path or a relative path (without dot segments,
\* query or fragment): the base itself, the href itself, the path on the
\* host of the base, the path in the directory of the base.
urljoin(base, href) ==
    LET b == Str(base)
        h == Str(href)
        host_end == CHOOSE i \in Slashes(b) \cup {Len(b) + 1} :
                        Cardinality({j \in Slashes(b) : j < i}) = 2 \/
                        (i = Len(b) + 1 /\ Cardinality(Slashes(b)) <= 2)
        dir_end == CHOOSE i \in Slashes(b) : \A j \in Slashes(b) : j <= i
    IN  IF h = <<>> THEN base
        ELSE IF StartsWith(h, Str("http://")) \/ StartsWith(h, Str("https://")) THEN href
        ELSE IF h[1] = "/" THEN Join(SubSeq(b, 1, host_end - 1) \o h)
        ELSE Join(SubSeq(b, 1, dir_end) \o h)

\* any(pattern in href.lower() for pattern in ['faculty', 'profile', 'member'])
LooksLikeProfile(href) ==
    \E pattern \in {"faculty", "profile", "member"} :
        FindLit(Str(href), 1, Str(pattern), TRUE) # 0

\* len(full_url.split('/'))
SplitSlashLen(full_url) == Cardinality(Slashes(Str(full_url))) + 1

MinSplitLen == 5    \* if len(full_url.split('/')) > 5

\* x in list
InList(x, list) == \E i \in 1..Len(list) : list[i] = x

\* Mutant of IsNew: a URL is appended whether or not the list has it.
IsNew_Always(full_url, profile_links, main_url) == TRUE

\* if full_url not in profile_links and full_url != main_url
IsNew(full_url, profile_links, main_url) ==
    ~InList(full_url, profile_links) /\ full_url # main_url

\* for link in all_links: ...
RECURSIVE PageLinks(_, _, _, _)
PageLinks(main_url, all_links, i, profile_links) ==
    IF i > Len(all_links) THEN profile_links
    ELSE LET href == all_links[i]
             full_url == urljoin(main_url, href)
         IN  PageLinks(main_url, all_links, i + 1,
                       IF /\ LooksLikeProfile(href)
                          /\ IsNew(full_url, profile_links, main_url)
                          /\ SplitSlashLen(full_url) > MinSplitLen
                       THEN Append(profile_links, full_url)
                       ELSE profile_links)

\* for card in faculty_cards: ... A card is the href of its first link, or
\* nothing when it has no link.
RECURSIVE CardLinks(_, _, _, _)
CardLinks(main_url, faculty_cards, i, profile_links) ==
    IF i > Len(faculty_cards) THEN profile_links
    ELSE LET link == faculty_cards[i]
             full_url == urljoin(main_url, link[1])
         IN  CardLinks(main_url, faculty_cards, i + 1,
                       IF link # <<>> /\ IsNew(full_url, profile_links, main_url)
                       THEN Append(profile_links, full_url)
                       ELSE profile_links)

\* get_faculty_links on the soup of the page.
get_faculty_links(main_url, soup) ==
    CardLinks(main_url, soup.faculty_cards, 1,
              PageLinks(main_url, soup.all_links, 1, <<>>))

\* The hrefs of the page: of a profile as an absolute path and as a URL, of the
\* page itself as a relative path, of a page near the root, of a news item.
ProfileHref == "/computer-science-engineering/faculty-view/1"
ProfileHrefUrl == "https://fse.ewubd.edu/computer-science-engineering/faculty-view/1"
SelfHref == "faculty-members"
ShallowHref == "/faculty-members"
NewsHref == "/computer-science-engineering/news/1"
Hrefs == {ProfileHref, ProfileHrefUrl, SelfHref, ShallowHref, NewsHref}
Cards == {<<>>} \cup {<<h>> : h \in Hrefs}

\* The answer to the request of the faculty page: an error, or a page.
LinkPages ==
    {[ok |-> FALSE]}
        \cup {[ok |-> TRUE, all_links |-> ls, faculty_cards |-> cs] :
                ls \in SeqsUpTo(Hrefs, MaxLinks), cs \in SeqsUpTo(Cards, MaxCards)}

\* get_faculty_links(main_url, headers): the request and, with a response, the
\* two loops over the soup.
GetFacultyLinks ==
    /\ faculty.pc = "get_faculty_links"
    /\ net' = Append(net, Get(faculty.main_url, faculty.page.ok))
    /\ faculty' = [faculty EXCEPT
                      !.pc = "links",
                      !.profile_links = IF faculty.page.ok
                                        THEN get_faculty_links(faculty.main_url, faculty.page)
                                        ELSE <<>>]
    /\ UNCHANGED <<parseVars, scrapeVars, course_main, scraper, homepage>>

\* scrape_all_faculty(main_url, delay) is called and the faculty page answers
\* with page.
NewFaculty(main_url, delay, p) ==
    [pc |-> "get_faculty_links", main_url |-> main_url, delay |-> delay, page |-> p,
     profile_links |-> <<>>, all_profiles |-> <<>>, i |-> 0, returned |-> PyNone]

InitFacultyLinks ==
    /\ doc = EmptyDoc
    /\ calls = <<>>
    /\ heap = <<>>
    /\ NoScrape
    /\ net = <<>>
    /\ course_main = [pc |-> "idle"]
    /\ scraper = [pc |-> "idle"]
    /\ \E p \in LinkPages : faculty = NewFaculty(faculty_url, 1000, p)
    /\ homepage = [pc |-> "idle"]

NextFacultyLinks == GetFacultyLinks

SpecFacultyLinks == InitFacultyLinks /\ [][NextFacultyLinks]_vars

\* if not profile_links: return []
NoProfiles ==
    /\ faculty.pc = "links"
    /\ faculty.profile_links = <<>>
    /\ faculty' = [faculty EXCEPT !.pc = "done", !.returned = <<>>]
    /\ UNCHANGED <<parseVars, scrapeVars, net, course_main, scraper, homepage>>

\* What scrape_faculty_profile extracts from the page of a profile.
profile_data(link) ==
    [profile_url |-> link, basic_info |-> [name |-> "Dr. A"], sections |-> EmptyDict]

\* Mutant of DelayAfter: a sleep after the last profile as well.
DelayAfter_Every(i, profile_links, delay) == <<Sleep(delay)>>

\* if i < len(profile_links): time.sleep(delay)
DelayAfter(i, profile_links, delay) ==
    IF i < Len(profile_links) THEN <<Sleep(delay)>> ELSE <<>>

\* A turn of the loop over profile_links: scrape_faculty_profile requests the
\* link and returns the profile, or None on a RequestException; the profile is
\* appended; the loop sleeps unless the link was the last one.
ScrapeProfile ==
    /\ faculty.pc = "links"
    /\ faculty.profile_links # <<>>
    /\ faculty.i < Len(faculty.profile_links)
    /\ \E ok \in BOOLEAN :
          LET i == faculty.i + 1
              link == faculty.profile_links[i]
          IN  /\ net' = Append(net, Get(link, ok))
                            \o DelayAfter(i, faculty.profile_links, faculty.delay)
              /\ faculty' = [faculty EXCEPT
                                !.i = i,
                                !.all_profiles = IF ok THEN Append(@, profile_data(link)) ELSE @]
    /\ UNCHANGED <<parseVars, scrapeVars, course_main, scraper, homepage>>

\* return all_profiles
ReturnProfiles ==
    /\ faculty.pc = "links"
    /\ faculty.profile_links # <<>>
    /\ faculty.i = Len(faculty.profile_links)
    /\ faculty' = [faculty EXCEPT !.pc = "done", !.returned = faculty.all_profiles]
    /\ UNCHANGED <<parseVars, scrapeVars, net, course_main, scraper, homepage>>

\* The faculty page of a run of scrape_all_faculty: an error, a page without
\* links, and pages with one, two and three profiles.
FacultyPages ==
    {[ok |-> FALSE],
     [ok |-> TRUE, all_links |-> <<>>, faculty_cards |-> <<>>],
     [ok |-> TRUE, all_links |-> <<SelfHref>>, faculty_cards |-> <<<<>>>>],
     [ok |-> TRUE, all_links |-> <<ProfileHref>>, faculty_cards |-> <<>>],
     [ok |-> TRUE, all_links |-> <<ProfileHref, ProfileHrefUrl>>, faculty_cards |-> <<<<NewsHref>>>>],
     [ok |-> TRUE, all_links |-> <<ProfileHref>>, faculty_cards |-> <<<<ShallowHref>>, <<NewsHref>>>>]}

\* The arguments `delay` of the runs, in milliseconds (1.0 is the default).
Delays == {0, 1000, 2500}

InitFaculty ==
    /\ doc = EmptyDoc
    /\ calls = <<>>
    /\ heap = <<>>
    /\ NoScrape
    /\ net = <<>>
    /\ course_main = [pc |-> "idle"]
    /\ scraper = [pc |-> "idle"]
    /\ \E p \in FacultyPages, delay \in Delays : faculty = NewFaculty(faculty_url, delay, p)
    /\ homepage = [pc |-> "idle"]

NextFaculty == GetFacultyLinks \/ NoProfiles \/ ScrapeProfile \/ ReturnProfiles

SpecFaculty == InitFaculty /\ [][NextFaculty]_vars

(***************************************************************************)
(* main of cse_homepage.py: three pages are scraped inside one try block   *)
(* and the result is written as one JSON document                          *)
(***************************************************************************)

homepage_url == "https://fse.ewubd.edu/computer-science-engineering"
chairperson_url == "https://fse.ewubd.edu/computer-science-engineering/chairperson-massage"

\* What the three functions extract from their page.
HomepageData ==
    {[welcome_section |-> w, recent_notices |-> n] :
        w \in {EmptyDict, [title |-> "Welcome"]}, n \in {<<>>, <<"Notice">>}}
ChairpersonData == {EmptyDict, [name |-> "Dr. X"], [name |-> "Dr. X", mission |-> <<"M1">>]}
HomepageCourses ==
    {<<>>, <<[code |-> "CSE103"]>>, <<[code |-> "CSE103"], [code |-> "CSE106"]>>,
     <<[code |-> "CSE106"]>>}

\* all_data at the start of main.
InitialAllData ==
    [scraped_at |-> "now", source_urls |-> <<homepage_url, chairperson_url>>,
     homepage |-> EmptyDict, chairperson |-> EmptyDict, courses |-> <<>>]

\* all_data[section] = <function>(): the function requests its page u and
\* returns what it extracts; a RequestException of requests.get or
\* raise_for_status leaves the function and the try block of main, whose
\* handler prints it.
ScrapeInto(step, section, u, results) ==
    /\ homepage.pc = "try"
    /\ homepage.step = step
    /\ \E ok \in BOOLEAN :
          /\ net' = Append(net, Get(u, ok))
          /\ IF ok
             THEN \E r \in results :
                     homepage' = [homepage EXCEPT !.step = @ + 1, !.all_data[section] = r]
             ELSE homepage' = [homepage EXCEPT !.pc = "except"]
    /\ UNCHANGED <<parseVars, scrapeVars, course_main, scraper, faculty>>

\* all_data['homepage'] = scrape_homepage()
ScrapeHomepage == ScrapeInto(0, "homepage", homepage_url, HomepageData)

\* all_data['chairperson'] = scrape_chairperson_message()
ScrapeChairperson == ScrapeInto(1, "chairperson", chairperson_url, ChairpersonData)

\* all_data['courses'] = scrape_courses_from_homepage()
ScrapeCoursesFromHomepage == ScrapeInto(2, "courses", homepage_url, HomepageCourses)

\* json.dump(all_data, f, ...), the last statement of the try block that
\* changes anything.
HomepageDump ==
    /\ homepage.pc = "try"
    /\ homepage.step = 3
    /\ homepage' = [homepage EXCEPT !.pc = "done", !.output = homepage.all_data]
    /\ UNCHANGED <<parseVars, scrapeVars, net, course_main, scraper, faculty>>

InitHomepage ==
    /\ doc = EmptyDoc
    /\ calls = <<>>
    /\ heap = <<>>
    /\ NoScrape
    /\ net = <<>>
    /\ course_main = [pc |-> "idle"]
    /\ scraper = [pc |-> "idle"]
    /\ faculty = [pc |-> "idle"]
    /\ homepage = [pc |-> "try", step |-> 0, all_data |-> InitialAllData, output |-> PyNone]

NextHomepage == ScrapeHomepage \/ ScrapeChairperson \/ ScrapeCoursesFromHomepage \/ HomepageDump

SpecHomepage == InitHomepage /\ [][NextHomepage]_vars

(***************************************************************************)
(* The runs together                                                       *)
(***************************************************************************)

\* The fetch layers: a run of main of course.py, or a call of fetch_page.
InitFetchLayer == InitMain \/ InitFetchPage

NextFetchLayer == NextMain \/ NextFetchPage

SpecFetchLayer == InitFetchLayer /\ [][NextFetchLayer]_vars

\* A scraping run: one of the scripts is run from its start.
InitRuns == InitMain \/ InitScrapeAll \/ InitFaculty \/ InitHomepage

NextRuns == NextMain \/ NextScrapeAll \/ NextFaculty \/ NextHomepage

SpecRuns == InitRuns /\ [][NextRuns]_vars

(***************************************************************************)
(* Properties                                                              *)
(***************************************************************************)

FieldNames ==
    {"code", "title", "credit_hours", "teaching_scheme", "prerequisite",
     "objective", "outcomes", "contents"}

\* The first line of a block's string, as the claims speak of it.
FirstLineOf(d) == SplitFirst(Text(d))

\* The calls that returned a record.
Returns == {i \in DOMAIN calls : ~calls[i].exc}

StartsWithCode(line) ==
    /\ Len(line) >= 4
    /\ \A k \in 1..3 : IsLetter(line[k])
    /\ IsDigit(line[4])

\* The code token as the specification words it: three uppercase letters and at
\* least two digits, at the start of the line.
StartsWithUpperCode(line) ==
    /\ Len(line) >= 5
    /\ \A k \in 1..3 : IsUpper(line[k])
    /\ IsDigit(line[4])
    /\ IsDigit(line[5])

\* C2 as stated: when the first line has no leading token of three uppercase
\* letters and 2 to 4 digits, code is absent and title is the normalised first line.
C2_Original ==
    \A i \in DOMAIN calls :
        ~StartsWithUpperCode(FirstLineOf(calls[i].block)) =>
            /\ ~calls[i].exc
            /\ calls[i].returned.code = PyNone
            /\ calls[i].returned.title = PyStr(Join(clean_text(FirstLineOf(calls[i].block))))

\* C2 amended: when the first line does not start with three letters of either
\* case followed by at least one digit, code is absent and title is the
\* whitespace-normalised first line.
C2_NoCodeToken ==
    \A i \in DOMAIN calls :
        ~StartsWithCode(FirstLineOf(calls[i].block)) =>
            /\ ~calls[i].exc
            /\ calls[i].returned.code = PyNone
            /\ calls[i].returned.title = PyStr(Join(clean_text(FirstLineOf(calls[i].block))))

\* C2's case: a first line without a code token was parsed, and its title is the
\* normalised line.
C2_Witness ==
    /\ calls # <<>>
    /\ calls[1].block = <<PlainHeader, PrerequisiteSection>>
    /\ ~calls[1].exc
    /\ calls[1].returned.code = PyNone
    /\ calls[1].returned.title = PyStr("Intro to AI")

\* First lines made of a code, a separator and a title.
SeparatedHeaders ==
    {[text |-> EndToEndHeader, code |-> "CSE402", title |-> "Computer and Cyber Security"],
     [text |-> ColonHeader, code |-> "CSE487", title |-> "Computer and Cyber Security"],
     [text |-> DashHeader, code |-> "CSE479", title |-> "Web Programming"]}

\* C3: when the first line is a course code, a separator (':', '-' or whitespace)
\* and a title, code is the code token and title is the rest of the line without
\* the separator.
C3_SeparatorDropped ==
    \A i \in DOMAIN calls :
        \A h \in SeparatedHeaders :
            (calls[i].block # <<>> /\ calls[i].block[1] = h.text) =>
                /\ ~calls[i].exc
                /\ calls[i].returned.code = PyStr(h.code)
                /\ calls[i].returned.title = PyStr(h.title)

\* A string of three uppercase letters followed by 2 to 4 digits.
UpperCodeShape(c) ==
    /\ Len(c) \in 5..7
    /\ \A k \in 1..3 : IsUpper(c[k])
    /\ \A k \in 4..Len(c) : IsDigit(c[k])

\* A string of three letters of either case followed by one or more digits.
CodeShape(c) ==
    /\ Len(c) >= 4
    /\ \A k \in 1..3 : IsLetter(c[k])
    /\ \A k \in 4..Len(c) : IsDigit(c[k])

\* C4 as stated: code is absent or three uppercase letters followed by 2 to 4 digits.
C4_Original ==
    \A i \in Returns :
        \/ calls[i].returned.code = PyNone
        \/ UpperCodeShape(Str(calls[i].returned.code.val))

\* C4 amended: code is absent or three letters of either case followed by one or
\* more digits.
C4_CodeShape ==
    \A i \in Returns :
        \/ calls[i].returned.code = PyNone
        \/ /\ calls[i].returned.code.type = "str"
           /\ CodeShape(Str(calls[i].returned.code.val))

\* C4's case: a lowercase one-digit code and a five-digit code were accepted.
C4_Witness ==
    /\ calls # <<>>
    /\ ~calls[1].exc
    /\ calls[1].returned.code \in {PyStr("cse1"), PyStr("CSE12345")}

\* The texts of the well-formed CO items and the item of a text.
WellFormedTexts == {ItemText(it) : it \in WellFormedItems}
ItemOf(text) == CHOOSE it \in WellFormedItems : ItemText(it) = text

\* The index after the last of the well-formed items that follow d[k].
ItemsEnd(d, k) ==
    IF \E e \in (k + 1)..Len(d) : d[e] \notin WellFormedTexts
    THEN CHOOSE e \in (k + 1)..Len(d) :
            d[e] \notin WellFormedTexts /\ \A j \in (k + 1)..(e - 1) : d[j] \in WellFormedTexts
    ELSE Len(d) + 1

\* d[k] is the block's first outcomes heading, it is `heading`, and what
\* follows is a well-formed span: one or more items "CO<n> <description>", then
\* "Course Contents ..." or the end of the text.
WellFormedSpanAt(d, k, heading) ==
    /\ k \in DOMAIN d
    /\ d[k] = heading
    /\ \A j \in 1..(k - 1) : d[j] \notin {OutcomesHeading, OutcomesHeadingBare}
    /\ ItemsEnd(d, k) > k + 1
    /\ ItemsEnd(d, k) = Len(d) + 1 \/ d[ItemsEnd(d, k)] = ContentsSection

\* The entries the items of the span at d[k] stand for, in document order.
SpanEntries(d, k) ==
    [j \in 1..(ItemsEnd(d, k) - k - 1) |->
        [code |-> ItemOf(d[k + j]).code,
         description |-> Join(clean_text(Str(ItemOf(d[k + j]).description)))]]

\* C5: for a well-formed span "Course Outcomes (COs): CO1 <desc1> CO2 <desc2> ...
\* Course Contents ...", outcomes has exactly one entry per CO token, each with
\* the code and the normalised text up to the next token, in document order.
C5_OutcomesInOrder ==
    \A i \in DOMAIN calls :
        \A k \in DOMAIN calls[i].block :
            WellFormedSpanAt(calls[i].block, k, OutcomesHeading) =>
                /\ ~calls[i].exc
                /\ calls[i].returned.outcomes = SpanEntries(calls[i].block, k)

\* C5's case: a span of two items closed by "Course Contents" was parsed into
\* two entries.
C5_Witness ==
    /\ calls # <<>>
    /\ ~calls[1].exc
    /\ \E k \in DOMAIN calls[1].block :
          /\ WellFormedSpanAt(calls[1].block, k, OutcomesHeading)
          /\ ItemsEnd(calls[1].block, k) = k + 3
          /\ ItemsEnd(calls[1].block, k) = Len(calls[1].block)
    /\ Len(calls[1].returned.outcomes) = 2
    /\ calls[1].returned.outcomes[1].code # calls[1].returned.outcomes[2].code

\* No two entries of an outcomes list have the same code.
DistinctCodes(outcomes) ==
    \A a, b \in DOMAIN outcomes : a # b => outcomes[a].code # outcomes[b].code

WithCOs(d) == [k \in DOMAIN d |-> IF d[k] = OutcomesHeadingBare THEN OutcomesHeading ELSE d[k]]

\* C7 as stated: "Course Outcomes" without "(COs):" gives the same outcomes as
\* the same text with "Course Outcomes (COs):".
C7_Original ==
    \A i \in DOMAIN calls :
        (\E k \in DOMAIN calls[i].block : calls[i].block[k] = OutcomesHeadingBare) =>
            /\ ~calls[i].exc
            /\ calls[i].returned.outcomes = parse_course_block(Text(WithCOs(calls[i].block))).ret.outcomes

\* C7 amended: the outcomes section is recognised only when "Course Outcomes" is
\* followed by "(COs)" and a colon: a text whose heading lacks "(COs):" yields
\* an empty outcomes list, and the same text with "Course Outcomes (COs):"
\* yields one entry per CO item.
C7_HeadingNeedsCOs ==
    \A i \in DOMAIN calls :
        (\A k \in DOMAIN calls[i].block : calls[i].block[k] # OutcomesHeading) =>
            /\ ~calls[i].exc
            /\ calls[i].returned.outcomes = <<>>
            /\ \A k \in DOMAIN calls[i].block :
                  WellFormedSpanAt(calls[i].block, k, OutcomesHeadingBare) =>
                      parse_course_block(Text(WithCOs(calls[i].block))).ret.outcomes
                          = SpanEntries(calls[i].block, k)

\* C7's case: a text "... Course Outcomes CO1 <d1> CO2 <d2> Course Contents ..."
\* was parsed and its outcomes are empty.
C7_Witness ==
    /\ calls # <<>>
    /\ ~calls[1].exc
    /\ \E k \in DOMAIN calls[1].block :
          /\ WellFormedSpanAt(calls[1].block, k, OutcomesHeadingBare)
          /\ ItemsEnd(calls[1].block, k) = k + 3
          /\ ItemsEnd(calls[1].block, k) = Len(calls[1].block)
    /\ calls[1].returned.outcomes = <<>>

\* C8 as stated: the end-to-end input yields code CSE402, the title, credit_hours
\* populated from the scheme text (which holds bare integers), prerequisite
\* CSE270, the objective, the one outcome CO1 and the contents.
C8_Original ==
    \A i \in DOMAIN calls :
        calls[i].block = EndToEndDoc =>
            /\ ~calls[i].exc
            /\ calls[i].returned.code = PyStr("CSE402")
            /\ calls[i].returned.title = PyStr("Computer and Cyber Security")
            /\ calls[i].returned.credit_hours # PyNone
            /\ calls[i].returned.prerequisite = PyStr("CSE270")
            /\ calls[i].returned.objective = PyStr("To teach security.")
            /\ calls[i].returned.outcomes = <<[code |-> "CO1", description |-> "Identify threats."]>>
            /\ calls[i].returned.contents = PyStr("Topics on cryptography.")

\* C8 amended: the end-to-end input yields every field as stated, with
\* teaching_scheme "Theory 3 Lab 0 Total 3" and credit_hours absent: the scheme
\* text holds bare integers but no "Credit hours <n>".
C8_EndToEnd ==
    \A i \in DOMAIN calls :
        calls[i].block = EndToEndDoc =>
            /\ ~calls[i].exc
            /\ calls[i].returned =
                  [code            |-> PyStr("CSE402"),
                   title           |-> PyStr("Computer and Cyber Security"),
                   credit_hours    |-> PyNone,
                   teaching_scheme |-> PyStr("Theory 3 Lab 0 Total 3"),
                   prerequisite    |-> PyStr("CSE270"),
                   objective       |-> PyStr("To teach security."),
                   outcomes        |-> <<[code |-> "CO1", description |-> "Identify threats."]>>,
                   contents        |-> PyStr("Topics on cryptography.")]

\* C8's case: the end-to-end input was parsed.
C8_Witness ==
    /\ calls # <<>>
    /\ calls[1].block = EndToEndDoc
    /\ Text(calls[1].block) = Str("CSE402 Computer and Cyber Security\nCredit Hours and Teaching Scheme: Theory 3 Lab 0 Total 3\nPrerequisite: CSE270\nCourse Objective: To teach security. Course Outcomes (COs): CO1 Identify threats. Course Contents Topics on cryptography.")
    /\ ~calls[1].exc
    /\ calls[1].returned.teaching_scheme # PyNone

\* The label occurs in the text, in any letter case.
HasLabel(text, label) == \E p \in 1..Len(text) : LitAt(text, p, label, TRUE)

\* C9: for a text without the label "Prerequisite" (in any letter case), the
\* call raises nothing and prerequisite is absent.
C9_NoPrerequisite ==
    \A i \in DOMAIN calls :
        ~HasLabel(Text(calls[i].block), PrerequisiteLabel) =>
            /\ ~calls[i].exc
            /\ calls[i].returned.prerequisite = PyNone

\* C9's case: a text with other sections and no "Prerequisite" was parsed.
C9_Witness ==
    /\ calls # <<>>
    /\ ~calls[1].exc
    /\ calls[1].block = <<EndToEndHeader, SchemeSection, ObjectiveSection, ContentsSection>>
    /\ calls[1].returned.prerequisite = PyNone
    /\ calls[1].returned.contents # PyNone

\* C10: the record depends only on the input string, whatever calls were made
\* before or in between and in whatever order; each call returns a record with
\* a list of its own, which no other call changes.
C10_PureAndFresh ==
    /\ \A i, j \in DOMAIN calls :
          calls[i].block = calls[j].block =>
              /\ calls[i].exc = calls[j].exc
              /\ ~calls[i].exc => calls[i].returned = calls[j].returned
    /\ \A i, j \in Returns : i # j => calls[i].list # calls[j].list
    /\ \A i \in Returns : /\ calls[i].list \in DOMAIN heap
                          /\ heap[calls[i].list] = calls[i].returned.outcomes

\* C10's case: the same block was parsed twice with another block in between,
\* and both calls returned the same non-empty outcomes in two lists.
C10_Witness ==
    /\ Len(calls) >= 3
    /\ calls[1].block = calls[3].block
    /\ calls[2].block # calls[1].block
    /\ Returns = DOMAIN calls
    /\ calls[1].returned.outcomes # <<>>
    /\ calls[2].returned.outcomes # <<>>
    /\ calls[1].returned = calls[3].returned
    /\ calls[1].list # calls[3].list

\* A text without leading or trailing whitespace and without two adjacent
\* whitespace characters.
NoOuterNoDoubleSpace(t) ==
    /\ t # <<>> => ~IsSpace(t[1]) /\ ~IsSpace(t[Len(t)])
    /\ \A k \in 1..(Len(t) - 1) : ~(IsSpace(t[k]) /\ IsSpace(t[k + 1]))

\* The strings a call hands to clean_text or that stand for them: the block's
\* text and its first line.
CleanInputs(d) == {Text(d), first_line(Text(d))}

\* C11: clean_text is idempotent, clean_text(clean_text(x)) = clean_text(x), and
\* its result has no leading or trailing whitespace and no two adjacent
\* whitespace characters.
C11_CleanTextIdempotent ==
    \A i \in DOMAIN calls :
        \A x \in CleanInputs(calls[i].block) :
            \E y \in {clean_text(x)} :
                /\ clean_text(y) = y
                /\ NoOuterNoDoubleSpace(y)

\* C11's case: a text with a run of spaces, a tab, newlines and a trailing space
\* was normalised into a different, shorter text.
C11_Witness ==
    /\ calls # <<>>
    /\ calls[1].block = <<PlainHeader, PrerequisiteSection, ObjectiveSection>>
    /\ clean_text(Text(calls[1].block))
          = Str("Intro to AI Prerequisite: CSE270 Course Objective: To teach security.")
    /\ Len(clean_text(Text(calls[1].block))) < Len(Text(calls[1].block))

\* A whitespace-normalised field value: no newline or tab, no run of two or
\* more spaces, no leading or trailing space.
Normalized(t) ==
    /\ \A k \in 1..Len(t) : t[k] \notin {"\n", "\t"}
    /\ \A k \in 1..(Len(t) - 1) : ~(t[k] = " " /\ t[k + 1] = " ")
    /\ t # <<>> => t[1] # " " /\ t[Len(t)] # " "

TextFields == {"code", "title", "teaching_scheme", "prerequisite", "objective", "contents"}

\* C12: every populated text field of a returned record (code, title,
\* teaching_scheme, prerequisite, objective, contents and each outcome
\* description) is whitespace-normalised.
C12_FieldsNormalized ==
    \A i \in Returns :
        /\ \A f \in TextFields :
              calls[i].returned[f] # PyNone => Normalized(Str(calls[i].returned[f].val))
        /\ \A k \in DOMAIN calls[i].returned.outcomes :
              Normalized(Str(calls[i].returned.outcomes[k].description))

\* C12's case: a description written over two lines, "Apply\n crypto.", and a
\* first line with a run of spaces and a tab came back normalised.
C12_Witness ==
    /\ calls # <<>>
    /\ ~calls[1].exc
    /\ calls[1].block = <<PlainHeader, OutcomesHeading,
                          ItemText([code |-> "CO2", sep |-> " ", description |-> "Apply\n crypto."])>>
    /\ calls[1].returned.title = PyStr("Intro to AI Course Outcomes (COs): CO2 Apply")
    /\ calls[1].returned.outcomes = <<[code |-> "CO2", description |-> "Apply crypto."]>>

\* C13 as stated: credit_hours is absent or an integer value.
C13_Original ==
    \A i \in Returns :
        \/ calls[i].returned.credit_hours = PyNone
        \/ calls[i].returned.credit_hours.type = "int"

\* C13 amended: credit_hours is absent or a str: the non-empty string of digits
\* captured after "Credit hours", never converted to an integer.
C13_DigitString ==
    \A i \in Returns :
        \/ calls[i].returned.credit_hours = PyNone
        \/ /\ calls[i].returned.credit_hours.type = "str"
           /\ Len(calls[i].returned.credit_hours.val) >= 1
           /\ \A k \in 1..Len(calls[i].returned.credit_hours.val) :
                 IsDigit(Str(calls[i].returned.credit_hours.val)[k])

\* C13's case: a scheme text "Credit hours 3" was parsed and credit_hours is the
\* string "3".
C13_Witness ==
    /\ calls # <<>>
    /\ ~calls[1].exc
    /\ calls[1].block = <<EndToEndHeader, SchemeSectionLower, PrerequisiteSection>>
    /\ calls[1].returned.teaching_scheme = PyStr("Credit hours 3")
    /\ calls[1].returned.credit_hours = PyStr("3")

\* What a fragment of a block is: the section it opens, "text" when it opens none.
\* "labelled" is an outcomes heading with "(COs):", "bare" one without.
Kind(x) ==
    CASE x \in {SchemeSection, SchemeSectionLower, SchemeSectionSpaced} -> "scheme"
      [] x \in {PrerequisiteSection, PrerequisiteSectionUpper} -> "prerequisite"
      [] x \in {ObjectiveSection, BrokenObjectiveSection} -> "objective"
      [] x = OutcomesHeading -> "labelled"
      [] x = OutcomesHeadingBare -> "bare"
      [] x = ContentsSection -> "contents"
      [] OTHER -> "text"

\* The text of a section fragment after its label and separator.
Body(x) ==
    CASE x = SchemeSection -> "Theory 3 Lab 0 Total 3"
      [] x = SchemeSectionLower -> "Credit hours 3 "
      [] x = SchemeSectionSpaced -> "Credit \nhours 4"
      [] x = PrerequisiteSection -> "CSE270"
      [] x = PrerequisiteSectionUpper -> "None"
      [] x = ObjectiveSection -> "To teach security."
      [] x = BrokenObjectiveSection -> "Learn"
      [] x = ContentsSection -> "Topics on cryptography."
      [] OTHER -> ""

\* The index of the first fragment of d at or after `from` whose kind is in
\* kinds, 0 if there is none.
FirstOf(d, from, kinds) ==
    IF \E j \in from..Len(d) : Kind(d[j]) \in kinds
    THEN CHOOSE j \in from..Len(d) :
            Kind(d[j]) \in kinds /\ \A q \in from..(j - 1) : Kind(d[q]) \notin kinds
    ELSE 0

\* The text of d from the end of the label of d[k] to the start of d[e].
SpanText(d, k, e) == Str(Body(d[k]) \o Concat(SubSeq(d, k + 1, e - 1), 1, ""))

\* The field delimited by the first fragment whose kind is in opening and by
\* the first later fragment whose kind is in closing; when there is no closing
\* fragment the field runs to the end of the text if toEnd, and is absent if not.
Delimited(d, opening, closing, toEnd) ==
    LET k == FirstOf(d, 1, opening)
        e == IF k = 0 THEN 0 ELSE FirstOf(d, k + 1, closing)
    IN  IF k = 0 \/ (e = 0 /\ ~toEnd) THEN <<0, 0>>
        ELSE <<k, IF e = 0 THEN Len(d) + 1 ELSE e>>

DelimitedField(d, opening, closing, toEnd) ==
    LET ke == Delimited(d, opening, closing, toEnd)
    IN  IF ke[1] = 0 THEN PyNone
        ELSE PyStr(Join(clean_text(SpanText(d, ke[1], ke[2]))))

\* The outcome entries of the span delimited in the same way.
DelimitedOutcomes(d, opening) ==
    LET ke == Delimited(d, opening, {"contents"}, TRUE)
    IN  IF ke[1] = 0 THEN <<>>
        ELSE OutcomesField(Match(<<ReplaceNewlines(SpanText(d, ke[1], ke[2]))>>))

\* The fields of a returned record are delimited by the first occurrence of
\* each label, the outcomes by the first heading whose kind is in headings.
FirstOccurrenceDelimits(i, headings) ==
    LET d == calls[i].block
        r == calls[i].returned
    IN  /\ r.teaching_scheme = DelimitedField(d, {"scheme"}, {"prerequisite"}, FALSE)
        /\ r.prerequisite = DelimitedField(d, {"prerequisite"}, {"objective"}, TRUE)
        /\ r.objective = DelimitedField(d, {"objective"}, {"labelled", "bare"}, FALSE)
        /\ r.outcomes = DelimitedOutcomes(d, headings)
        /\ r.contents = DelimitedField(d, {"contents"}, {}, TRUE)

\* C15 as stated: every section label is matched in any letter case and the
\* first occurrence of a label delimits its field: "Course Outcomes", with or
\* without "(COs):", for the outcomes.
C15_Original ==
    \A i \in Returns : FirstOccurrenceDelimits(i, {"labelled", "bare"})

\* C15 amended: every section label is matched in any letter case and the first
\* occurrence of a label delimits its field; the label of the outcomes is
\* "Course Outcomes (COs):", so that an earlier "Course Outcomes" without
\* "(COs):" closes the objective but does not open the outcomes.
C15_FirstOccurrence ==
    \A i \in Returns : FirstOccurrenceDelimits(i, {"labelled"})

\* C15's case: labels in lower and in upper case were matched, and of two
\* scheme labels and two prerequisite labels the first ones delimit the fields.
C15_Witness ==
    /\ calls # <<>>
    /\ ~calls[1].exc
    /\ calls[1].block = <<EndToEndHeader, SchemeSectionLower, SchemeSection,
                          PrerequisiteSection, PrerequisiteSectionUpper>>
    /\ calls[1].returned.teaching_scheme
          = PyStr("Credit hours 3 Credit Hours and Teaching Scheme: Theory 3 Lab 0 Total 3")
    /\ calls[1].returned.prerequisite = PyStr("CSE270 PREREQUISITE - None")

\* The section labels the claims speak of.
SectionLabels == {SchemeLabel, PrerequisiteLabel, ObjectiveLabel, OutcomesLabel, ContentsLabel}

\* C16 as stated: a capture whose closing label is missing is cut at the nearest
\* later section label, so that no value of teaching_scheme, prerequisite or
\* objective contains a section label.
C16_Original ==
    \A i \in Returns :
        \A f \in {"teaching_scheme", "prerequisite", "objective"} :
            calls[i].returned[f] # PyNone =>
                \A label \in SectionLabels : ~HasLabel(Str(calls[i].returned[f].val), label)

\* C16 amended: a capture is never cut at the label of another section. Without
\* a "Course Objective" after the first "Prerequisite", prerequisite is the
\* normalised text from that label to the end of the text, later labels
\* included; without a "Prerequisite" in the text teaching_scheme and
\* credit_hours are absent, and without a "Course Outcomes" objective is absent.
C16_NoTruncation ==
    \A i \in Returns :
        \E d \in {calls[i].block} :
            \E k \in {FirstOf(d, 1, {"prerequisite"})} :
                /\ (k # 0 /\ FirstOf(d, k + 1, {"objective"}) = 0) =>
                      calls[i].returned.prerequisite
                          = PyStr(Join(clean_text(SpanText(d, k, Len(d) + 1))))
                /\ ~HasLabel(search_text(Text(d)), PrerequisiteLabel) =>
                      /\ calls[i].returned.teaching_scheme = PyNone
                      /\ calls[i].returned.credit_hours = PyNone
                /\ ~HasLabel(search_text(Text(d)), OutcomesLabel) =>
                      calls[i].returned.objective = PyNone

\* C16's case: a text with "Prerequisite", no "Course Objective" and a later
\* "Course Contents" was parsed: prerequisite runs over the later label to the
\* end, and the objective, whose closing label is missing too, is absent.
C16_Witness ==
    /\ calls # <<>>
    /\ ~calls[1].exc
    /\ calls[1].block = <<EndToEndHeader, PrerequisiteSection, ContentsSection>>
    /\ calls[1].returned.prerequisite = PyStr("CSE270 Course Contents Topics on cryptography.")
    /\ calls[1].returned.objective = PyNone
    /\ calls[1].returned.contents = PyStr("Topics on cryptography.")

\* The section a fragment belongs to; the CO items belong to the outcomes.
SectionOf(x) ==
    CASE Kind(x) \in {"scheme", "prerequisite", "objective", "contents"} -> Kind(x)
      [] Kind(x) \in {"labelled", "bare"} \/ x \in ItemTexts -> "outcomes"
      [] OTHER -> "none"

SectionNames == {"scheme", "prerequisite", "objective", "outcomes", "contents"}

\* The block without a section: its label and its text are removed.
Remove(d, sec) ==
    LET Keep(x) == SectionOf(x) # sec
    IN  SelectSeq(d, Keep)

\* A record with its five sections after the first line, in the page's order,
\* every label once.
Complete(d) ==
    /\ Len(d) >= 6
    /\ d[1] = EndToEndHeader
    /\ d[2] = SchemeSection
    /\ d[3] = PrerequisiteSection
    /\ d[4] = ObjectiveSection
    /\ Kind(d[5]) \in {"labelled", "bare"}
    /\ \A j \in 6..(Len(d) - 1) : d[j] \in ItemTexts
    /\ d[Len(d)] = ContentsSection

\* The fields a section's pass assigns, and the fields whose capture the
\* section's label closes.
OwnFields(sec) ==
    CASE sec = "scheme" -> {"teaching_scheme", "credit_hours"}
      [] sec = "prerequisite" -> {"prerequisite"}
      [] sec = "objective" -> {"objective"}
      [] sec = "outcomes" -> {"outcomes"}
      [] sec = "contents" -> {"contents"}

ClosedFields(sec) ==
    CASE sec = "prerequisite" -> {"teaching_scheme", "credit_hours"}
      [] sec = "objective" -> {"prerequisite"}
      [] sec = "outcomes" -> {"objective"}
      [] OTHER -> {}

\* C17 as stated: removing one section from an input changes that section's
\* field only; every other field keeps its value.
C17_Original ==
    \A i \in Returns :
        Complete(calls[i].block) =>
            \A sec \in SectionNames :
                \E r \in {parse_course_block(Text(Remove(calls[i].block, sec))).ret} :
                    \A f \in FieldNames \ OwnFields(sec) : r[f] = calls[i].returned[f]

\* C17 amended: the passes search the same text and a section's label closes
\* the capture of the section before it. In a record with the five sections in
\* the page's order, removing a section leaves unchanged every field but the
\* section's own and the one its label closes: without the Prerequisite section
\* teaching_scheme is absent, without the Course Outcomes section objective is
\* absent, without the Course Objective section prerequisite runs to the end of
\* the text.
C17_RemovalFrame ==
    \A i \in Returns :
        Complete(calls[i].block) =>
            /\ \A sec \in SectionNames :
                  \E r \in {parse_course_block(Text(Remove(calls[i].block, sec))).ret} :
                      /\ \A f \in FieldNames \ (OwnFields(sec) \cup ClosedFields(sec)) :
                            r[f] = calls[i].returned[f]
                      /\ \A f \in OwnFields(sec) \ {"outcomes"} : r[f] = PyNone
                      /\ sec = "prerequisite" => r.teaching_scheme = PyNone
                      /\ sec = "outcomes" => r.objective = PyNone /\ r.outcomes = <<>>
                      /\ sec = "objective" =>
                            r.prerequisite =
                                PyStr(Join(clean_text(SpanText(Remove(calls[i].block, sec), 3,
                                                               Len(calls[i].block)))))
            /\ calls[i].returned.teaching_scheme # PyNone
            /\ calls[i].returned.objective # PyNone
            /\ calls[i].returned.prerequisite = PyStr("CSE270")

\* C17's case: a record with the five sections and two outcomes was parsed;
\* every section can be removed from it.
C17_Witness ==
    /\ calls # <<>>
    /\ ~calls[1].exc
    /\ Complete(calls[1].block)
    /\ Len(calls[1].block) = 8
    /\ Kind(calls[1].block[5]) = "labelled"
    /\ Len(calls[1].returned.outcomes) = 2
    /\ \A sec \in SectionNames : Len(Remove(calls[1].block, sec)) < Len(calls[1].block)

\* The phrases C18 speaks of.
CreditHoursPhrase == Str("Credit Hours")
TotalPhrase == Str("Total")

\* C18 as stated: when the text holds "Credit Hours" and later "Prerequisite" or
\* "Total", teaching_scheme is the text that begins at "Credit Hours", and
\* credit_hours is populated.
C18_Original ==
    \A i \in Returns :
        \E s \in {search_text(Text(calls[i].block))} :
            \E p \in {FindLit(s, 1, CreditHoursPhrase, TRUE)} :
                ( /\ p # 0
                  /\ \/ FindLit(s, p + Len(CreditHoursPhrase), PrerequisiteLabel, TRUE) # 0
                     \/ FindLit(s, p + Len(CreditHoursPhrase), TotalPhrase, TRUE) # 0 )
                => /\ calls[i].returned.teaching_scheme # PyNone
                   /\ LitAt(Str(calls[i].returned.teaching_scheme.val), 1, CreditHoursPhrase, TRUE)
                   /\ calls[i].returned.credit_hours # PyNone

\* The number after the first "Credit hours" of a fragment, "" if it has none.
CreditNumber(x) ==
    CASE x \in {SchemeSectionLower, BareCreditSection} -> "3"
      [] x = SchemeSectionSpaced -> "4"
      [] OTHER -> ""

\* C18 amended: teaching_scheme is populated exactly when the text holds
\* "Credit Hours and Teaching Scheme", a colon and a later "Prerequisite": it is
\* the normalised text between the colon and that "Prerequisite", "Total" and
\* what follows it included, the label itself excluded. credit_hours is
\* populated exactly when that text holds "Credit hours" followed by digits,
\* and is then the first such number, as a string.
C18_SchemeCapture ==
    \A i \in Returns :
        \E d \in {calls[i].block} :
            \E ke \in {Delimited(d, {"scheme"}, {"prerequisite"}, FALSE)} :
                /\ calls[i].returned.teaching_scheme
                      = DelimitedField(d, {"scheme"}, {"prerequisite"}, FALSE)
                /\ (ke[1] = 0) = (calls[i].returned.teaching_scheme = PyNone)
                /\ LET js == {j \in ke[1]..(ke[2] - 1) : j >= 1 /\ CreditNumber(d[j]) # ""}
                   IN  calls[i].returned.credit_hours =
                          IF js = {} THEN PyNone
                          ELSE PyStr(CreditNumber(d[CHOOSE j \in js : \A q \in js : j <= q]))

\* C18's case: the scheme "Theory 3 Lab 0 Total 3" before a "Prerequisite" was
\* parsed: teaching_scheme runs over "Total" to the "Prerequisite" and
\* credit_hours is absent.
C18_Witness ==
    /\ calls # <<>>
    /\ ~calls[1].exc
    /\ calls[1].block = <<EndToEndHeader, SchemeSection, PrerequisiteSection, ObjectiveSection>>
    /\ calls[1].returned.teaching_scheme = PyStr("Theory 3 Lab 0 Total 3")
    /\ calls[1].returned.credit_hours = PyNone

\* The first fragment after d[k] that starts a following course, Len(d)+1 if none.
NextCourseAfter(d, k) ==
    IF \E e \in (k + 1)..Len(d) : d[e] = NextCourse
    THEN CHOOSE e \in (k + 1)..Len(d) : d[e] = NextCourse /\ \A q \in (k + 1)..(e - 1) : d[q] # NextCourse
    ELSE Len(d) + 1

\* C19 as stated: contents is the normalised text after the first "Course
\* Contents" label, up to the header of the next course when the text holds
\* more than one course, and to the end of the string otherwise.
C19_Original ==
    \A i \in Returns :
        \E d \in {calls[i].block} :
            \E k \in {FirstOf(d, 1, {"contents"})} :
                k # 0 =>
                    calls[i].returned.contents
                        = PyStr(Join(clean_text(SpanText(d, k, NextCourseAfter(d, k)))))

\* C19 amended: contents is the normalised text after the first "Course
\* Contents" label up to the end of the string, whatever follows: when the text
\* holds a further course, contents includes the text of that course.
C19_ContentsToEnd ==
    \A i \in Returns :
        \E d \in {calls[i].block} :
            \E k \in {FirstOf(d, 1, {"contents"})} :
                /\ k = 0 => calls[i].returned.contents = PyNone
                /\ k # 0 =>
                      /\ calls[i].returned.contents = PyStr(Join(clean_text(SpanText(d, k, Len(d) + 1))))
                      /\ NextCourseAfter(d, k) <= Len(d) =>
                            HasLabel(Str(calls[i].returned.contents.val), Str("CSE403 Networks"))

\* C19's case: a text with two courses was parsed, and the contents of the first
\* holds the header and the sections of the second.
C19_Witness ==
    /\ calls # <<>>
    /\ ~calls[1].exc
    /\ calls[1].block = <<EndToEndHeader, SchemeSectionSpaced, PrerequisiteSection, ContentsSection,
                          NextCourse, PrerequisiteSectionUpper>>
    /\ calls[1].returned.contents
          = PyStr("Topics on cryptography. CSE403 Networks PREREQUISITE - None")

\* The text is empty or occurs in `whole` as one contiguous piece.
OccursIn(text, whole) == text = <<>> \/ FindLit(whole, 1, text, FALSE) # 0

\* Every populated text field of call i is clean_text of one contiguous span of
\* the input: it occurs as one piece in the normalised input.
FieldsAreSpans(i) ==
    \E whole \in {clean_text(Text(calls[i].block))} :
        /\ \A f \in TextFields :
              calls[i].returned[f] # PyNone => OccursIn(Str(calls[i].returned[f].val), whole)
        /\ \A k \in DOMAIN calls[i].returned.outcomes :
              OccursIn(Str(calls[i].returned.outcomes[k].description), whole)

\* C20 as stated: the labels are searched in the source text as it is, and
\* every populated text field is clean_text of one contiguous span of the input.
C20_Original ==
    \A i \in Returns :
        \E s \in {Text(calls[i].block)} :
            /\ FieldsAreSpans(i)
            /\ calls[i].returned.teaching_scheme # PyNone => HasLabel(s, SchemeLabel)
            /\ calls[i].returned.prerequisite # PyNone => HasLabel(s, PrerequisiteLabel)
            /\ calls[i].returned.objective # PyNone => HasLabel(s, ObjectiveLabel)
            /\ calls[i].returned.contents # PyNone => HasLabel(s, ContentsLabel)

\* C20 amended: the labels are searched in a copy of the source text whose
\* newlines are replaced by spaces, and nothing else is normalised before the
\* search: a label written over two lines is found, a label written with a tab
\* is not. "Credit hours" is searched in the normalised teaching scheme. Every
\* populated text field is clean_text of one contiguous span of the input.
C20_SearchAfterNewlines ==
    \A i \in Returns :
        \E s \in {ReplaceNewlines(Text(calls[i].block))} :
            /\ FieldsAreSpans(i)
            /\ calls[i].returned.teaching_scheme # PyNone => HasLabel(s, SchemeLabel)
            /\ (calls[i].returned.prerequisite # PyNone) = HasLabel(s, PrerequisiteLabel)
            /\ calls[i].returned.objective # PyNone => HasLabel(s, ObjectiveLabel)
            /\ (calls[i].returned.contents # PyNone) = HasLabel(s, ContentsLabel)
            /\ calls[i].returned.credit_hours # PyNone =>
                  HasLabel(Str(calls[i].returned.teaching_scheme.val), CreditLabel)

\* C20's case: "Course\nObjective", written over two lines, was found as the
\* label of the objective, which is the normalised text after it.
C20_Witness ==
    /\ calls # <<>>
    /\ ~calls[1].exc
    /\ calls[1].block = <<EndToEndHeader, BrokenObjectiveSection, OutcomesHeadingBare>>
    /\ calls[1].returned.objective = PyStr("Learn")
    /\ ~HasLabel(Text(calls[1].block), ObjectiveLabel)

\* A record with a non-empty code.
HasCode(r) == r.code # PyNone /\ r.code.val # ""

\* The records the calls returned, in the order of the calls.
ParsedRecords == [i \in DOMAIN calls |-> calls[i].returned]

\* C14: every record of the list scrape_courses_from_page returns has a
\* non-empty code; a block without a code is discarded, on the container path
\* and on the split path, and the other records are all there, in the order of
\* their blocks.
C14_OnlyCoded ==
    /\ pc # "raised"
    /\ \A k \in DOMAIN courses : HasCode(courses[k])
    /\ courses = SelectSeq(ParsedRecords, HasCode)
    /\ pc = "done" /\ page.ok =>
          /\ Len(calls) = Len(blocks)
          /\ \A i \in DOMAIN calls : calls[i].block = <<Join(scheme_text(blocks[i]))>>

\* C14's case: three containers were parsed, the second one has no code: the
\* list returned holds the records of the first and of the third.
C14_Witness ==
    /\ pc = "done"
    /\ Len(blocks) = 3
    /\ blocks[1].type = "Tag"
    /\ Len(calls) = 3
    /\ calls[2].returned.code = PyNone
    /\ courses = <<calls[1].returned, calls[3].returned>>
    /\ courses[1].code = PyStr("CSE402")
    /\ courses[2].code = PyStr("CSE479")

(***************************************************************************)
(* The runs of the scripts                                                 *)
(***************************************************************************)

\* The requests of net, oldest first.
Requests ==
    LET IsGet(e) == e.op = "get"
    IN  SelectSeq(net, IsGet)

CourseKeys == {"core_courses", "elective_courses"}

\* C21: a network error while fetching a page makes scrape_courses_from_page
\* return an empty list without raising, and main of course.py still requests
\* the other page and writes a document that has both keys core_courses and
\* elective_courses, the list of a failed page being empty, whichever of the
\* two pages fail.
C21_BothKeys ==
    /\ pc # "raised"
    /\ (pc = "done" /\ ~page.ok) => courses = <<>>
    /\ course_main.pc = "done" =>
          /\ DOMAIN course_main.output = CourseKeys
          /\ Len(Requests) = Len(urls)
          /\ \A i \in 1..Len(urls) :
                /\ Requests[i].url = urls[i]
                /\ ~Requests[i].ok => course_main.output[key(urls[i])] = <<>>

\* The core page fails, the elective page does not: the document is written
\* with an empty list of core courses and the elective courses.
C21_Witness ==
    /\ course_main.pc = "done"
    /\ ~Requests[1].ok
    /\ Requests[2].ok
    /\ course_main.output["core_courses"] = <<>>
    /\ course_main.output["elective_courses"] # <<>>

\* The number of requests among the first i entries of net.
RequestsUpTo(i) ==
    LET IsGet(e) == e.op = "get"
    IN  Len(SelectSeq(SubSeq(net, 1, i), IsGet))

\* fetch_page has returned to its caller.
FetchPageReturned == scraper.pc = "returned"

\* C24: fetch_page(url, retries) returns and never raises; it sends at most
\* `retries` requests and none after a successful one; it returns the parsed
\* page of the successful request, and None exactly when all `retries`
\* requests failed (without any request when retries is 0); it sleeps 2 seconds
\* after each failed attempt but the last, and 1 second after a successful one.
C24_FetchPage ==
    /\ <>FetchPageReturned
    /\ [](/\ Len(Requests) <= scraper.retries
          /\ \A i \in 1..Len(Requests) :
                /\ Requests[i].url = scraper.url
                /\ Requests[i].ok => i = Len(Requests)
          /\ \A i \in 1..Len(net) :
                IF net[i].op = "sleep"
                THEN i > 1 /\ net[i - 1].op = "get"
                ELSE IF net[i].ok
                THEN i < Len(net) /\ net[i + 1] = Sleep(PoliteSleep)
                ELSE IF RequestsUpTo(i) = scraper.retries
                THEN i = Len(net)
                ELSE i < Len(net) /\ net[i + 1] = Sleep(RetrySleep)
          /\ FetchPageReturned =>
                IF Requests # <<>> /\ Requests[Len(Requests)].ok
                THEN scraper.soup = scraper.site[scraper.url]
                ELSE /\ scraper.soup = PyNone
                     /\ Len(Requests) = scraper.retries)

\* Two attempts fail and the third succeeds.
C24_Witness ==
    /\ FetchPageReturned
    /\ scraper.retries = 3
    /\ scraper.soup = FullSoup
    /\ net = <<Get(scraper.url, FALSE), Sleep(RetrySleep), Get(scraper.url, FALSE), Sleep(RetrySleep),
               Get(scraper.url, TRUE), Sleep(PoliteSleep)>>

\* s is a prefix of t.
IsPrefix(s, t) == Len(s) <= Len(t) /\ SubSeq(t, 1, Len(s)) = s

\* The requests sent to url u.
RequestsTo(u) ==
    LET ToU(e) == e.op = "get" /\ e.url = u
    IN  SelectSeq(net, ToU)

\* The list scrape_courses is to append to, and the one it is to leave alone.
OwnCourseList == IF Step.arg = "core-courses" THEN "core_courses" ELSE "elective_courses"
OtherCourseList == IF Step.arg = "core-courses" THEN "elective_courses" ELSE "core_courses"

\* C26: in scrape_all, a method whose fetch_page returns None returns without
\* modifying self.data (nor do the attempts of fetch_page), and scrape_all goes
\* on to the next method, so that at its end every section has been requested;
\* scrape_courses('core-courses') only appends to courses.core_courses and
\* scrape_courses of another type only to courses.elective_courses, every other
\* part of self.data staying as it is.
C26_SkipAndFrame ==
    /\ [](scraper.pc = "done" =>
            \A i \in 1..Len(Steps) : RequestsTo(StepUrl(Steps[i])) # <<>>)
    /\ [][/\ scraper.pc = "fetch_page" => scraper'.data = scraper.data
          /\ (scraper.pc = "section" /\ scraper.soup = PyNone) =>
                /\ scraper'.data = scraper.data
                /\ scraper'.pc = "scrape_all"
                /\ scraper'.step = scraper.step + 1
          /\ Fetched("scrape_courses") =>
                /\ \A section \in DOMAIN InitialData \ {"courses"} :
                      scraper'.data[section] = scraper.data[section]
                /\ scraper'.data.courses[OtherCourseList] = scraper.data.courses[OtherCourseList]
                /\ IsPrefix(scraper.data.courses[OwnCourseList],
                            scraper'.data.courses[OwnCourseList])]_vars

\* The page of the core courses could not be fetched: no core course, and the
\* elective courses and the sections after them are there.
C26_Witness ==
    /\ scraper.pc = "done"
    /\ Len(RequestsTo(StepUrl(Steps[3]))) = DefaultRetries
    /\ Failures = DefaultRetries
    /\ scraper.data.courses.core_courses = <<>>
    /\ scraper.data.courses.elective_courses = <<[course_code |-> "CSE103"]>>
    /\ scraper.data.lab_facilities = <<[name |-> "Lab 1"]>>
    /\ scraper.data.administrative_officials = <<[name |-> "Mr. Y"]>>

\* The URLs get_faculty_links comes across, as it comes across them: those of
\* the page links that look like a profile and are deep enough, then those of
\* the cards that have a link.
Discovered(main_url, soup) ==
    LET link_urls == [i \in 1..Len(soup.all_links) |-> urljoin(main_url, soup.all_links[i])]
        Accepted(i) == /\ LooksLikeProfile(soup.all_links[i])
                       /\ SplitSlashLen(link_urls[i]) > MinSplitLen
        accepted == {i \in 1..Len(soup.all_links) : Accepted(i)}
        card_urls == [i \in 1..Len(soup.faculty_cards) |->
                        IF soup.faculty_cards[i] = <<>> THEN ""
                        ELSE urljoin(main_url, soup.faculty_cards[i][1])]
        Linked(c) == c # ""
        Pick(i) == i \in accepted
        indexes == SelectSeq([i \in 1..Len(soup.all_links) |-> i], Pick)
    IN  [k \in 1..Len(indexes) |-> link_urls[indexes[k]]]
            \o SelectSeq(SubSeq(card_urls, 1, Len(soup.faculty_cards)), Linked)

\* The first position of x in list, 0 when it is not in it.
FirstAt(x, list) ==
    IF InList(x, list) THEN CHOOSE i \in 1..Len(list) : list[i] = x /\ \A j \in 1..(i - 1) : list[j] # x
    ELSE 0

\* C30: the list get_faculty_links returns holds no URL twice and never
\* main_url; it holds the URLs discovered on the page, page links before card
\* links, in the order of their first discovery; a fetch error yields [].
C30_FacultyLinks ==
    faculty.pc = "links" =>
        LET links == faculty.profile_links
        IN  IF ~faculty.page.ok THEN links = <<>>
            ELSE LET found == Discovered(faculty.main_url, faculty.page)
                 IN  /\ \A i, j \in 1..Len(links) : i # j => links[i] # links[j]
                     /\ ~InList(faculty.main_url, links)
                     /\ {links[i] : i \in 1..Len(links)}
                            = {found[i] : i \in 1..Len(found)} \ {faculty.main_url}
                     /\ \A i, j \in 1..Len(links) :
                            i < j => FirstAt(links[i], found) < FirstAt(links[j], found)

\* A profile linked twice with two spellings and a card that links to a news
\* item: the profile once, then the item.
C30_Witness ==
    /\ faculty.pc = "links"
    /\ faculty.page.ok
    /\ faculty.page.all_links = <<ProfileHref, ProfileHrefUrl>>
    /\ faculty.page.faculty_cards = <<<<NewsHref>>>>
    /\ faculty.profile_links = <<ProfileHrefUrl, "https://fse.ewubd.edu/computer-science-engineering/news/1">>

\* The requests of the profiles: all but the first one, that of the faculty page.
ProfileRequests == SubSeq(Requests, 2, Len(Requests))

\* The profiles of the requests that succeeded, in their order.
Succeeded ==
    LET Ok(e) == e.ok
        ok == SelectSeq(ProfileRequests, Ok)
    IN  [k \in 1..Len(ok) |-> profile_data(ok[k].url)]

\* C29: scrape_all_faculty returns the profiles of exactly the links whose
\* request succeeded, in the order of the links; it requests every link once,
\* in that order, and sleeps `delay` after every profile request but the last;
\* with an empty list of links it returns [] and requests no profile.
C29_AllFaculty ==
    faculty.pc = "done" =>
        LET links == faculty.profile_links
        IN  /\ net[1] = Get(faculty.main_url, faculty.page.ok)
            /\ [k \in 1..Len(ProfileRequests) |-> ProfileRequests[k].url] = links
            /\ faculty.returned = Succeeded
            /\ links = <<>> => (faculty.returned = <<>> /\ Len(net) = 1)
            /\ \A i \in 2..Len(net) :
                  IF net[i].op = "sleep"
                  THEN net[i] = Sleep(faculty.delay) /\ net[i - 1].op = "get"
                  ELSE IF RequestsUpTo(i) - 1 < Len(links)
                  THEN i < Len(net) /\ net[i + 1].op = "sleep"
                  ELSE i = Len(net)

\* Three links, the request of the second one fails: two profiles, and a sleep
\* after the first and the second request only.
C29_Witness ==
    /\ faculty.pc = "done"
    /\ faculty.delay = 2500
    /\ Len(faculty.profile_links) = 3
    /\ faculty.returned = <<profile_data(faculty.profile_links[1]), profile_data(faculty.profile_links[3])>>
    /\ net = <<Get(faculty_url, TRUE),
               Get(faculty.profile_links[1], TRUE), Sleep(2500),
               Get(faculty.profile_links[2], FALSE), Sleep(2500),
               Get(faculty.profile_links[3], TRUE)>>

\* main of cse_homepage.py has left its try block, at its end or by an exception.
HomepageFinished == homepage.pc \in {"done", "except"}

\* The sections of all_data, by the request that fills them.
HomepageSections == <<"homepage", "chairperson", "courses">>

\* C25: in main of cse_homepage.py a network error on one of the three pages
\* leaves only the section of that page empty: the three pages are requested
\* whatever happens to the others, and the JSON file is written, with the data
\* of the pages that answered and the initial, empty value for the others.
C25_Original ==
    HomepageFinished =>
        /\ Len(Requests) = Len(HomepageSections)
        /\ homepage.output # PyNone
        /\ \A i \in 1..Len(HomepageSections) :
              ~Requests[i].ok =>
                  homepage.output[HomepageSections[i]] = InitialAllData[HomepageSections[i]]

\* C22: in every scraping run two consecutive requests are separated by a
\* sleep: no request follows another one directly.
C22_Original ==
    \A i \in 1..(Len(net) - 1) : ~(net[i].op = "get" /\ net[i + 1].op = "get")

\* C23 as stated: every page URL is requested at most once in a run.
C23_Original ==
    \A i, j \in 1..Len(Requests) : i # j => Requests[i].url # Requests[j].url

\* C23: scrape_courses_from_page skips and continues: in a run of main of
\* course.py every page URL is requested at most once, a failed request never
\* again. fetch_page retries: it sends the request of its url again only after
\* that request has failed, at most `retries` requests in all, and none after
\* a request that succeeded.
C23_RetryInFetchPage ==
    /\ course_main.pc # "idle" => C23_Original
    /\ scraper.pc # "idle" =>
          /\ Len(Requests) <= scraper.retries
          /\ \A i \in 1..Len(Requests) :
                /\ Requests[i].url = scraper.url
                /\ i < Len(Requests) => ~Requests[i].ok

\* fetch_page has requested its url twice: the first request failed, the
\* second one succeeded.
C23_Witness ==
    /\ scraper.pc = "returned"
    /\ Len(Requests) = 2
    /\ Requests[1].url = Requests[2].url
    /\ ~Requests[1].ok
    /\ Requests[2].ok

(***************************************************************************)
(* The split path of scrape_courses_from_page                              *)
(***************************************************************************)

\* The page is scraped on the split path: no container, and a main column.
SplitPath == page.ok /\ unique_containers(page.containers) = <<>> /\ page.main # <<>>

\* The text of the main column.
ColumnText == get_text(page.main[1], <<"\n">>)

\* [A-Z]{3}\d{3} at i.
CourseCodeAt(s, i) ==
    /\ i + 5 <= Len(s)
    /\ \A k \in 0..2 : IsUpper(s[i + k])
    /\ \A k \in 3..5 : IsDigit(s[i + k])

\* The course headers of a text: the starts of its lines that begin with a
\* course code, in the order of the text.
CourseHeaders(s) ==
    LET starts == {i \in 1..Len(s) : (i = 1 \/ s[i - 1] = "\n") /\ CourseCodeAt(s, i)}
        Before(i) == Cardinality({j \in starts : j < i})
    IN  [k \in 1..Cardinality(starts) |-> CHOOSE i \in starts : Before(i) = k - 1]

\* C27: on the split path the text is cut into exactly one block per course,
\* from a course header up to the next one: as many blocks and records as the
\* text has course headers, the records in the order of the headers; a course
\* code mentioned inside a block adds no block and no record.
C27_Original ==
    (SplitPath /\ pc = "done") =>
        LET headers == CourseHeaders(ColumnText)
        IN  /\ Len(blocks) = Len(headers)
            /\ Len(courses) = Len(headers)
            /\ \A k \in 1..Len(headers) :
                  /\ k <= Len(courses)
                  /\ courses[k].code = PyStr(Join(SubSeq(ColumnText, headers[k], headers[k] + 5)))

\* The position in the text at which the k-th piece of the split starts.
PieceStart(raw, k) ==
    LET PieceLen(j) == Len(raw[j][1]) + Len(raw[j][2])
        RECURSIVE Rest(_)
        Rest(j) == IF j > Len(raw) THEN 0 ELSE PieceLen(j) + Rest(j + 1)
    IN  Len(ColumnText) - Rest(k) + 1

\* The title of the header line that starts at i: the normalized remainder of
\* the line after the course code.
HeaderLineTitle(s, i) == Join(clean_text(SubSeq(s, i + 6, LineEnd(s, i) - 1)))

\* C28: on the split path every record keeps its title: the record of a block
\* whose header line is "<code> <title text>" has the normalized remainder of
\* that line as its title.
C28_Original ==
    (SplitPath /\ pc = "done") =>
        LET raw == course_blocks_raw(ColumnText)
        IN  \A k \in 1..Len(raw) :
                calls[k].returned.title = PyStr(HeaderLineTitle(ColumnText, PieceStart(raw, k)))

====
